---- MODULE Spec2Model ----
(***************************************************************************)
(* A model of the fusion-gene alignment tools: the CIGAR helpers of        *)
(* alignment_helper.py (cigarStringToList, trimHardClips,                  *)
(* cigarListToShadedAreas, howLongShouldReferenceSequenceBe), the script   *)
(* FusionGeneParser_final.py (the BAM filter loop, Reads.sort() and the    *)
(* write loop), ParseReadFile of alignment_tester.py, and the zoom events  *)
(* of BarFrameStackerScrollArea of alignment_gui.py.                       *)
(*                                                                         *)
(* Python strings are sequences of one-character strings, so that          *)
(* slicing, searching, splitting, str() and int() are computed, not        *)
(* assumed.  A CigarEntry is a record [CigarLength, CigarType]; a shaded   *)
(* area is a pair <<start, length>>.                                       *)
(***************************************************************************)
EXTENDS Integers, Sequences, FiniteSets, TLC

\* ------------------------------------------------------------------ bounds

\* The largest sum of operation lengths of a CIGAR list handed to the helpers.
MaxTotalLen == 3

\* The largest operation length stringified for the tokenizer round trip.
MaxTokNum == 12

\* The largest number of entries stringified for the tokenizer round trip.
MaxTokEntries == 2

\* The largest length of a raw string handed to the tokenizer.
MaxRawLen == 3

\* Iterations of a loop are counted up to this number (the count saturates).
MaxIters == 4

\* ------------------------------------------------------- characters, strings

Digits == <<"0", "1", "2", "3", "4", "5", "6", "7", "8", "9">>

UpperCase == {"A", "B", "C", "D", "E", "F", "G", "H", "I", "J", "K", "L", "M",
              "N", "O", "P", "Q", "R", "S", "T", "U", "V", "W", "X", "Y", "Z"}

IsDigit(c) == \E d \in 1..10 : Digits[d] = c

IsUpper(c) == c \in UpperCase

DigitVal(c) == (CHOOSE d \in 1..10 : Digits[d] = c) - 1

Min(a, b) == IF a < b THEN a ELSE b

\* Python's s[start:end] for 0 <= start, 0 <= end (0-based, end exclusive,
\* both clipped to the length of s).
Slice(s, start, end) ==
    LET e == Min(end, Len(s))
    IN  IF start >= e THEN <<>> ELSE SubSeq(s, start + 1, e)

\* Python's  c * n  for a one-character string c.
Repeat(c, n) == [i \in 1..n |-> c]

\* Python's int(s) for a string of decimal digits.
RECURSIVE int(_)
int(s) ==
    IF Len(s) = 0 THEN 0
    ELSE int(SubSeq(s, 1, Len(s) - 1)) * 10 + DigitVal(s[Len(s)])

\* Python's str(n) for n >= 0.
RECURSIVE str(_)
str(n) ==
    IF n < 10 THEN <<Digits[n + 1]>>
    ELSE str(n \div 10) \o <<Digits[(n % 10) + 1]>>

\* Whether sub occurs in s at index i.
OccursAt(s, sub, i) ==
    /\ i + Len(sub) - 1 <= Len(s)
    /\ \A k \in 1..Len(sub) : s[i + k - 1] = sub[k]

\* The index of the first occurrence of sub in s from index i on, or 0.
RECURSIVE FindFrom(_, _, _)
FindFrom(s, sub, i) ==
    IF i + Len(sub) - 1 > Len(s) THEN 0
    ELSE IF OccursAt(s, sub, i) THEN i
    ELSE FindFrom(s, sub, i + 1)

\* Python's  sub in s.
Contains(s, sub) == FindFrom(s, sub, 1) > 0

\* Python's s.split(sep) for a non-empty sep, from index start on: the pieces
\* between the occurrences of sep, empty pieces kept.
RECURSIVE SplitFrom(_, _, _)
SplitFrom(s, sep, start) ==
    LET i == FindFrom(s, sep, start)
    IN  IF i = 0 THEN <<SubSeq(s, start, Len(s))>>
        ELSE <<SubSeq(s, start, i - 1)>> \o SplitFrom(s, sep, i + Len(sep))

SplitOn(s, sep) == SplitFrom(s, sep, 1)

WhiteSpace == {" ", "\t"}

\* The first index from i on (Len(s) + 1 at most) whose character is not in
\* chars (when inside is TRUE) or is in chars (when it is FALSE).
RECURSIVE SkipFrom(_, _, _, _)
SkipFrom(s, chars, inside, i) ==
    IF i > Len(s) \/ ((s[i] \in chars) /= inside) THEN i
    ELSE SkipFrom(s, chars, inside, i + 1)

\* The last index down from i (0 at least) whose character is not in chars.
RECURSIVE SkipBack(_, _, _)
SkipBack(s, chars, i) ==
    IF i < 1 \/ s[i] \notin chars THEN i
    ELSE SkipBack(s, chars, i - 1)

\* Python's s.split(), from index start on: the pieces between runs of
\* whitespace, no empty piece.
RECURSIVE SplitWhiteSpaceFrom(_, _)
SplitWhiteSpaceFrom(s, start) ==
    LET b == SkipFrom(s, WhiteSpace, TRUE, start)
        e == SkipFrom(s, WhiteSpace, FALSE, b)
    IN  IF b > Len(s) THEN <<>>
        ELSE <<SubSeq(s, b, e - 1)>> \o SplitWhiteSpaceFrom(s, e)

SplitWhiteSpace(s) == SplitWhiteSpaceFrom(s, 1)

\* Python's s.strip(chars): every leading and every trailing character that is
\* in chars is removed.
Strip(s, chars) ==
    LET b == SkipFrom(s, chars, TRUE, 1)
    IN  IF b > Len(s) THEN <<>>
        ELSE SubSeq(s, b, SkipBack(s, chars, Len(s)))

\* Whether Python's int(s) returns (an optional sign, then digits) or raises
\* ValueError.
IsIntLiteral(s) ==
    LET body == IF Len(s) > 0 /\ s[1] \in {"+", "-"} THEN Tail(s) ELSE s
    IN  Len(body) > 0 /\ \A i \in 1..Len(body) : IsDigit(body[i])

\* Python's int(s) with its sign.
IntOf(s) ==
    IF Len(s) > 0 /\ s[1] = "-" THEN 0 - int(Tail(s))
    ELSE IF Len(s) > 0 /\ s[1] = "+" THEN int(Tail(s))
    ELSE int(s)

\* ------------------------------------------------------------- CigarEntry

Supported == {"M", "I", "D", "N", "S", "H"}

\* Operation letters the tokenizer's [A-Z] accepts and the helpers do not define.
Unsupported == {"X", "P"}

CigarTypes == Supported \cup Unsupported

\* CigarEntry(cigar_length, cigar_type)
CigarEntry(cigar_length, cigar_type) ==
    [CigarLength |-> cigar_length, CigarType |-> cigar_type]

\* CigarEntry.__str__
EntryStr(entry) == str(entry.CigarLength) \o <<entry.CigarType>>

\* ------------------------------------------------------ cigarStringToList

\* The end of the run of digits that starts at s[i]: the first index after i
\* that holds no digit (Len(s) + 1 when the digits run to the end).
DigitRunEnd(s, i) ==
    CHOOSE j \in (i + 1)..(Len(s) + 1) :
        /\ \A k \in i..(j - 1) : IsDigit(s[k])
        /\ (j = Len(s) + 1 \/ ~IsDigit(s[j]))

\* re.findall("\\d[A-Z]", s): one digit, not a run of digits.
RECURSIVE ReFindAll_onedigit(_, _)
ReFindAll_onedigit(s, i) ==
    IF i >= Len(s) THEN <<>>
    ELSE IF IsDigit(s[i]) /\ IsUpper(s[i + 1])
         THEN <<SubSeq(s, i, i + 1)>> \o ReFindAll_onedigit(s, i + 2)
         ELSE ReFindAll_onedigit(s, i + 1)

\* re.findall("\\d+[MIDNSH]", s): the supported letters only.
RECURSIVE ReFindAll_supported(_, _)
ReFindAll_supported(s, i) ==
    IF i > Len(s) THEN <<>>
    ELSE IF ~IsDigit(s[i]) THEN ReFindAll_supported(s, i + 1)
    ELSE LET j == DigitRunEnd(s, i)
         IN  IF j <= Len(s) /\ s[j] \in Supported
             THEN <<SubSeq(s, i, j)>> \o ReFindAll_supported(s, j + 1)
             ELSE ReFindAll_supported(s, j)

\* re.findall("\\d+[A-Z]", s) from index i on: the leftmost non-overlapping
\* matches, each a maximal run of digits and the upper-case letter after it.
\* A run of digits that no upper-case letter follows matches nothing.
RECURSIVE ReFindAll(_, _)
ReFindAll(s, i) ==
    IF i > Len(s) THEN <<>>
    ELSE IF ~IsDigit(s[i]) THEN ReFindAll(s, i + 1)
    ELSE LET j == DigitRunEnd(s, i)
         IN  IF j <= Len(s) /\ IsUpper(s[j])
             THEN <<SubSeq(s, i, j)>> \o ReFindAll(s, j + 1)
             ELSE ReFindAll(s, j)

\* One CigarEntry per match: int(result[0:len(result) - 1]), result[-1].
\* No letter is checked, and nothing is raised.
cigarStringToList(cigar_string) ==
    LET regex_results == ReFindAll(cigar_string, 1)
    IN  [k \in 1..Len(regex_results) |->
            CigarEntry(int(Slice(regex_results[k], 0, Len(regex_results[k]) - 1)),
                       regex_results[k][Len(regex_results[k])])]

\* ------------------------------------- howLongShouldReferenceSequenceBe

\* The chain with the soft clip not counted.
bool_should_count_soft(cigar_type) ==
    CASE cigar_type = "I" -> "no"
      [] cigar_type = "N" -> "yes"
      [] cigar_type = "M" -> "yes"
      [] cigar_type = "D" -> "yes"
      [] cigar_type = "S" -> "no"
      [] cigar_type = "H" -> "no"
      [] OTHER -> "raise"

\* The if/elif chain of the loop body: whether an entry of this type counts.
bool_should_count(cigar_type) ==
    CASE cigar_type = "I" -> "no"
      [] cigar_type = "N" -> "yes"
      [] cigar_type = "M" -> "yes"
      [] cigar_type = "D" -> "yes"
      [] cigar_type = "S" -> "yes"
      [] cigar_type = "H" -> "no"
      [] OTHER -> "raise"

\* The loop from entry i on, with the count so far.  The result is the value
\* returned or, with the count reached, the type named by the exception raised.
RECURSIVE HowLongLoop(_, _, _)
HowLongLoop(cigar_list, i, total_count) ==
    IF i > Len(cigar_list) THEN [raised |-> "none", value |-> total_count]
    ELSE LET entry == cigar_list[i]
         IN  CASE bool_should_count(entry.CigarType) = "raise" ->
                    [raised |-> entry.CigarType, value |-> total_count]
               [] bool_should_count(entry.CigarType) = "yes" ->
                    HowLongLoop(cigar_list, i + 1, total_count + entry.CigarLength)
               [] OTHER ->
                    HowLongLoop(cigar_list, i + 1, total_count)

howLongShouldReferenceSequenceBe(cigar_list) == HowLongLoop(cigar_list, 1, 0)

\* -------------------------------------------------- cigarListToShadedAreas

\* The chain with the soft clip padding the reference sequence.
CigarPolicy_softpad(cigar_type) ==
    CASE cigar_type = "I" ->
            [ok |-> TRUE, bool_shade_ref |-> FALSE, bool_shade_read |-> TRUE,
             bool_pad_ref |-> TRUE, bool_pad_read |-> FALSE]
      [] cigar_type = "N" ->
            [ok |-> TRUE, bool_shade_ref |-> TRUE, bool_shade_read |-> FALSE,
             bool_pad_ref |-> FALSE, bool_pad_read |-> TRUE]
      [] cigar_type = "M" ->
            [ok |-> TRUE, bool_shade_ref |-> TRUE, bool_shade_read |-> TRUE,
             bool_pad_ref |-> FALSE, bool_pad_read |-> FALSE]
      [] cigar_type = "D" ->
            [ok |-> TRUE, bool_shade_ref |-> TRUE, bool_shade_read |-> FALSE,
             bool_pad_ref |-> FALSE, bool_pad_read |-> TRUE]
      [] cigar_type = "S" ->
            [ok |-> TRUE, bool_shade_ref |-> TRUE, bool_shade_read |-> FALSE,
             bool_pad_ref |-> TRUE, bool_pad_read |-> FALSE]
      [] cigar_type = "H" ->
            [ok |-> TRUE, bool_shade_ref |-> FALSE, bool_shade_read |-> FALSE,
             bool_pad_ref |-> TRUE, bool_pad_read |-> TRUE]
      [] OTHER ->
            [ok |-> FALSE, bool_shade_ref |-> FALSE, bool_shade_read |-> FALSE,
             bool_pad_ref |-> FALSE, bool_pad_read |-> FALSE]

\* The chain with no final else: a type it does not name is padded like a
\* hard clip.
CigarPolicy_noelse(cigar_type) ==
    CASE cigar_type = "I" ->
            [ok |-> TRUE, bool_shade_ref |-> FALSE, bool_shade_read |-> TRUE,
             bool_pad_ref |-> TRUE, bool_pad_read |-> FALSE]
      [] cigar_type = "N" ->
            [ok |-> TRUE, bool_shade_ref |-> TRUE, bool_shade_read |-> FALSE,
             bool_pad_ref |-> FALSE, bool_pad_read |-> TRUE]
      [] cigar_type = "M" ->
            [ok |-> TRUE, bool_shade_ref |-> TRUE, bool_shade_read |-> TRUE,
             bool_pad_ref |-> FALSE, bool_pad_read |-> FALSE]
      [] cigar_type = "D" ->
            [ok |-> TRUE, bool_shade_ref |-> TRUE, bool_shade_read |-> FALSE,
             bool_pad_ref |-> FALSE, bool_pad_read |-> TRUE]
      [] cigar_type = "S" ->
            [ok |-> TRUE, bool_shade_ref |-> TRUE, bool_shade_read |-> FALSE,
             bool_pad_ref |-> FALSE, bool_pad_read |-> FALSE]
      [] OTHER ->
            [ok |-> TRUE, bool_shade_ref |-> FALSE, bool_shade_read |-> FALSE,
             bool_pad_ref |-> TRUE, bool_pad_read |-> TRUE]

\* The chain with the soft clip padding the read sequence.
CigarPolicy_softreadpad(cigar_type) ==
    CASE cigar_type = "I" ->
            [ok |-> TRUE, bool_shade_ref |-> FALSE, bool_shade_read |-> TRUE,
             bool_pad_ref |-> TRUE, bool_pad_read |-> FALSE]
      [] cigar_type = "N" ->
            [ok |-> TRUE, bool_shade_ref |-> TRUE, bool_shade_read |-> FALSE,
             bool_pad_ref |-> FALSE, bool_pad_read |-> TRUE]
      [] cigar_type = "M" ->
            [ok |-> TRUE, bool_shade_ref |-> TRUE, bool_shade_read |-> TRUE,
             bool_pad_ref |-> FALSE, bool_pad_read |-> FALSE]
      [] cigar_type = "D" ->
            [ok |-> TRUE, bool_shade_ref |-> TRUE, bool_shade_read |-> FALSE,
             bool_pad_ref |-> FALSE, bool_pad_read |-> TRUE]
      [] cigar_type = "S" ->
            [ok |-> TRUE, bool_shade_ref |-> TRUE, bool_shade_read |-> FALSE,
             bool_pad_ref |-> FALSE, bool_pad_read |-> TRUE]
      [] cigar_type = "H" ->
            [ok |-> TRUE, bool_shade_ref |-> FALSE, bool_shade_read |-> FALSE,
             bool_pad_ref |-> TRUE, bool_pad_read |-> TRUE]
      [] OTHER ->
            [ok |-> FALSE, bool_shade_ref |-> FALSE, bool_shade_read |-> FALSE,
             bool_pad_ref |-> FALSE, bool_pad_read |-> FALSE]

\* The if/elif chain of the loop body: the four flags of an entry's type.
CigarPolicy(cigar_type) ==
    CASE cigar_type = "I" ->
            [ok |-> TRUE, bool_shade_ref |-> FALSE, bool_shade_read |-> TRUE,
             bool_pad_ref |-> TRUE, bool_pad_read |-> FALSE]
      [] cigar_type = "N" ->
            [ok |-> TRUE, bool_shade_ref |-> TRUE, bool_shade_read |-> FALSE,
             bool_pad_ref |-> FALSE, bool_pad_read |-> TRUE]
      [] cigar_type = "M" ->
            [ok |-> TRUE, bool_shade_ref |-> TRUE, bool_shade_read |-> TRUE,
             bool_pad_ref |-> FALSE, bool_pad_read |-> FALSE]
      [] cigar_type = "D" ->
            [ok |-> TRUE, bool_shade_ref |-> TRUE, bool_shade_read |-> FALSE,
             bool_pad_ref |-> FALSE, bool_pad_read |-> TRUE]
      [] cigar_type = "S" ->
            [ok |-> TRUE, bool_shade_ref |-> TRUE, bool_shade_read |-> FALSE,
             bool_pad_ref |-> FALSE, bool_pad_read |-> FALSE]
      [] cigar_type = "H" ->
            [ok |-> TRUE, bool_shade_ref |-> FALSE, bool_shade_read |-> FALSE,
             bool_pad_ref |-> TRUE, bool_pad_read |-> TRUE]
      [] OTHER ->
            [ok |-> FALSE, bool_shade_ref |-> FALSE, bool_shade_read |-> FALSE,
             bool_pad_ref |-> FALSE, bool_pad_read |-> FALSE]

\* Whether the last shaded area ends where the new one starts.
Contiguous(shaded, current_shade_position) ==
    /\ Len(shaded) > 0
    /\ shaded[Len(shaded)][1] + shaded[Len(shaded)][2] = current_shade_position

\* Adding a shaded area with no merge.
AddShaded_nomerge(shaded, current_shade_position, cigar_length) ==
    Append(shaded, <<current_shade_position, cigar_length>>)

\* Adding a shaded area of cigar_length at current_shade_position: merged into
\* the last area when contiguous with it, appended otherwise.
AddShaded(shaded, current_shade_position, cigar_length) ==
    IF Contiguous(shaded, current_shade_position)
    THEN LET temp_region == <<shaded[Len(shaded)][1],
                              shaded[Len(shaded)][2] + cigar_length>>
         IN  Append(SubSeq(shaded, 1, Len(shaded) - 1), temp_region)
    ELSE Append(shaded, <<current_shade_position, cigar_length>>)

\* ------------------------------------------------------------------ inputs

\* The sum of the lengths of the entries whose type is in types.
RECURSIVE SumLengths(_, _)
SumLengths(cigar_list, types) ==
    IF Len(cigar_list) = 0 THEN 0
    ELSE (IF cigar_list[1].CigarType \in types THEN cigar_list[1].CigarLength ELSE 0)
         + SumLengths(Tail(cigar_list), types)

\* Every CIGAR list of entries of positive length whose lengths sum to at
\* most budget.
RECURSIVE CigarListsUpTo(_)
CigarListsUpTo(budget) ==
    {<<>>} \cup
    UNION {{<<CigarEntry(n, t)>> \o rest :
                t \in CigarTypes, rest \in CigarListsUpTo(budget - n)} :
           n \in 1..budget}

CigarLists == CigarListsUpTo(MaxTotalLen)

RefBases == <<"A", "C", "G", "T">>

ReadBases == <<"t", "g", "c", "a">>

\* The reference window and the read of a given length (the bases differ from
\* place to place, and between the two sequences).
RefSeqOfLen(n) == [i \in 1..n |-> RefBases[((i - 1) % 4) + 1]]

ReadSeqOfLen(n) == [i \in 1..n |-> ReadBases[((i - 1) % 4) + 1]]

\* A sequence is handed over with the length the CIGAR list asks for, one
\* base short, or one base long.
SeqDeltas == {-1, 0, 1}

RefLengths(cigar_list) ==
    {n \in {SumLengths(cigar_list, {"M", "N", "D", "S"}) + d : d \in SeqDeltas} : n >= 0}

ReadLengths(cigar_list) ==
    {n \in {SumLengths(cigar_list, {"M", "I", "S"}) + d : d \in SeqDeltas} : n >= 0}

\* Entries stringified for the tokenizer: lengths of one and two digits, zero
\* included, and letters inside and outside the supported set.
TokLengths == {0, 1, 9} \cup (10..MaxTokNum)

TokTypes == {"M", "H", "X"}

TokEntries == {CigarEntry(n, t) : n \in TokLengths, t \in TokTypes}

TokLists == UNION {[1..k -> TokEntries] : k \in 0..MaxTokEntries}

\* "".join(str(entry) for entry in cigar_list)
RECURSIVE JoinEntries(_)
JoinEntries(cigar_list) ==
    IF Len(cigar_list) = 0 THEN <<>>
    ELSE EntryStr(cigar_list[1]) \o JoinEntries(Tail(cigar_list))

\* Raw strings for the tokenizer: digits, supported and unsupported letters, a
\* lower-case letter and a sign.
RawChars == {"1", "0", "M", "X", "m", "-"}

RawStrings == UNION {[1..k -> RawChars] : k \in 0..MaxRawLen}

\* ------------------------------------------------------------------- state

VARIABLES
    op,                     \* the function running ("idle" before any call)
    pc,                     \* where it is: a loop, "returned", "raised"
    raised,                 \* the type an exception names ("none": no exception)
    cigar_string,           \* cigarStringToList's argument
    stringified,            \* whether cigar_string was made from cigar_in
    cigar_in,               \* the CIGAR list as the caller passed it
    cigar_list,             \* the function's cigar_list (trimHardClips rebinds it)
    read_seq,               \* cigarListToShadedAreas' arguments
    ref_seq,
    idx,                    \* entries the for loop has gone through
    iters,                  \* iterations of trimHardClips' second loop
    shaded_ref,             \* cigarListToShadedAreas' locals
    shaded_read,
    padded_ref_seq,
    padded_read_seq,
    current_ref_position,
    current_read_position,
    current_shade_position,
    total_count,            \* howLongShouldReferenceSequenceBe's result
    fpc,                    \* the filter loop: "loop", or "raised" once it has crashed
    fraised,                \* the exception that ended the filter loop ("none": none)
    n_read,                 \* records pybam.read has yielded
    alignment,              \* the record of the last iteration
    sa_given,               \* what that record's tag string was written from
    Reads,                  \* the list of Read tuples
    sa_bound,               \* whether SA_chr, SA_pos and SA_MAPQ are bound yet
    SA_chr,                 \* the loop's names, which outlive an iteration
    SA_pos,
    SA_MAPQ,
    arrival,                \* Reads as the loop left it, before Reads.sort()
    newfile,                \* the characters written to parsedreads.txt
    widx,                   \* candidates whose block the write loop has finished
    rfiles_open,            \* reference files opened and not closed
    ppc,                    \* ParseReadFile: "idle", "reading", "returned", "raised", "hung"
    praised,                \* the exception that ended it ("none": none)
    file1,                  \* the characters of the file it reads
    file_pos,               \* how many of them readline has consumed
    current_alignment_info_text,
    alignment_infos,
    zoom_made,              \* whether the BarFrameStackerScrollArea is constructed
    sequenceLength,         \* BarFrameStacker.__sequenceLength
    currentZoomLevelIndex,  \* BarFrameStackerScrollArea.__currentZoomLevelIndex
    zoom_call,              \* the zoom function the last event called ("none": none)
    zoom_raised             \* the exception that ended the last event ("none": none)

walkVars == <<read_seq, ref_seq, idx, shaded_ref, shaded_read, padded_ref_seq,
              padded_read_seq, current_ref_position, current_read_position,
              current_shade_position>>

helperVars == <<op, pc, raised, cigar_string, stringified, cigar_in, cigar_list,
                iters, total_count, walkVars>>

filterVars == <<fpc, fraised, n_read, alignment, sa_given, Reads, sa_bound,
                SA_chr, SA_pos, SA_MAPQ>>

writerVars == <<arrival, newfile, widx, rfiles_open>>

parserVars == <<ppc, praised, file1, file_pos, current_alignment_info_text,
                alignment_infos>>

zoomVars == <<zoom_made, sequenceLength, currentZoomLevelIndex, zoom_call,
              zoom_raised>>

\* What the helpers of alignment_helper.py leave alone.
scriptVars == <<filterVars, writerVars, parserVars, zoomVars>>

vars == <<helperVars, scriptVars>>

HelperInit ==
    /\ op = "idle"
    /\ pc = "idle"
    /\ raised = "none"
    /\ cigar_string = <<>>
    /\ stringified = FALSE
    /\ cigar_in = <<>>
    /\ cigar_list = <<>>
    /\ read_seq = <<>>
    /\ ref_seq = <<>>
    /\ idx = 0
    /\ iters = 0
    /\ shaded_ref = <<>>
    /\ shaded_read = <<>>
    /\ padded_ref_seq = <<>>
    /\ padded_read_seq = <<>>
    /\ current_ref_position = 0
    /\ current_read_position = 0
    /\ current_shade_position = 0
    /\ total_count = 0

\* ------------------------------------------------ actions: cigarStringToList

\* A call of cigarStringToList on the string of a list of entries.
TokenizeEntries ==
    /\ UNCHANGED scriptVars
    /\ op = "idle"
    /\ \E l \in TokLists :
        /\ cigar_in' = l
        /\ cigar_string' = JoinEntries(l)
        /\ cigar_list' = cigarStringToList(JoinEntries(l))
    /\ stringified' = TRUE
    /\ op' = "cigarStringToList"
    /\ pc' = "returned"
    /\ UNCHANGED <<raised, iters, total_count, walkVars>>

\* A call of cigarStringToList on any string.
TokenizeRaw ==
    /\ UNCHANGED scriptVars
    /\ op = "idle"
    /\ \E s \in RawStrings :
        /\ cigar_string' = s
        /\ cigar_list' = cigarStringToList(s)
    /\ op' = "cigarStringToList"
    /\ pc' = "returned"
    /\ UNCHANGED <<raised, stringified, cigar_in, iters, total_count, walkVars>>

\* ---------------------------------------------------- actions: trimHardClips

CallTrimHardClips ==
    /\ UNCHANGED scriptVars
    /\ op = "idle"
    /\ \E l \in CigarLists :
        /\ cigar_in' = l
        /\ cigar_list' = l
    /\ op' = "trimHardClips"
    /\ pc' = "leading"
    /\ UNCHANGED <<raised, cigar_string, stringified, iters, total_count, walkVars>>

\* The test of the loops with the letter of the soft clip.
IsHardClip_soft(entry) == entry.CigarType = "S"

\* entry.getCigarType() == "H", the test of both loops.
IsHardClip(entry) == entry.CigarType = "H"

\* The result of one pass through the body of the first loop.
LeadingBody(l) == Slice(l, 1, Len(l))

\* The result of one pass through the body of the second loop.
TrailingBody(l) == Slice(l, 0, Len(l))

\* while len(cigar_list) > 0 and cigar_list[0].getCigarType() == "H"
TrimLeading ==
    /\ UNCHANGED scriptVars
    /\ op = "trimHardClips"
    /\ pc = "leading"
    /\ IF Len(cigar_list) > 0 /\ IsHardClip(cigar_list[1])
       THEN /\ cigar_list' = LeadingBody(cigar_list)
            /\ pc' = "leading"
       ELSE /\ cigar_list' = cigar_list
            /\ pc' = "trailing"
    /\ UNCHANGED <<op, raised, cigar_string, stringified, cigar_in, iters,
                   total_count, walkVars>>

\* while len(cigar_list) > 0 and cigar_list[len(cigar_list) - 1].getCigarType() == "H"
TrimTrailing ==
    /\ UNCHANGED scriptVars
    /\ op = "trimHardClips"
    /\ pc = "trailing"
    /\ IF Len(cigar_list) > 0 /\ IsHardClip(cigar_list[Len(cigar_list)])
       THEN /\ cigar_list' = TrailingBody(cigar_list)
            /\ iters' = Min(iters + 1, MaxIters)
            /\ pc' = "trailing"
       ELSE /\ cigar_list' = cigar_list
            /\ iters' = iters
            /\ pc' = "returned"
    /\ UNCHANGED <<op, raised, cigar_string, stringified, cigar_in,
                   total_count, walkVars>>

\* ------------------------- actions: howLongShouldReferenceSequenceBe

CallHowLong ==
    /\ UNCHANGED scriptVars
    /\ op = "idle"
    /\ \E l \in CigarLists :
        LET r == howLongShouldReferenceSequenceBe(l)
        IN  /\ cigar_in' = l
            /\ cigar_list' = l
            /\ raised' = r.raised
            /\ total_count' = r.value
            /\ pc' = IF r.raised = "none" THEN "returned" ELSE "raised"
    /\ op' = "howLongShouldReferenceSequenceBe"
    /\ UNCHANGED <<cigar_string, stringified, iters, walkVars>>

\* ------------------------------------------- actions: cigarListToShadedAreas

CallShadedAreas ==
    /\ UNCHANGED scriptVars
    /\ op = "idle"
    /\ \E l \in CigarLists :
        /\ cigar_in' = l
        /\ cigar_list' = l
        /\ \E n \in RefLengths(l) : ref_seq' = RefSeqOfLen(n)
        /\ \E n \in ReadLengths(l) : read_seq' = ReadSeqOfLen(n)
    /\ op' = "cigarListToShadedAreas"
    /\ pc' = "loop"
    /\ shaded_ref' = <<>>
    /\ shaded_read' = <<>>
    /\ padded_read_seq' = <<>>
    /\ padded_ref_seq' = <<>>
    /\ current_ref_position' = 0
    /\ current_read_position' = 0
    /\ current_shade_position' = 0
    /\ idx' = 0
    /\ UNCHANGED <<raised, cigar_string, stringified, iters, total_count>>

\* What one entry adds, the padding being one blank whatever the length.
SeqAddition_oneblank(bool_pad, seq, current_position, cigar_length) ==
    IF bool_pad
    THEN <<" ">>
    ELSE Slice(seq, current_position, current_position + cigar_length)

\* What one entry adds to a padded sequence: blanks when the sequence is
\* padded, the next cigar_length characters of seq (as many as it has) otherwise.
SeqAddition(bool_pad, seq, current_position, cigar_length) ==
    IF bool_pad
    THEN Repeat(" ", cigar_length)
    ELSE Slice(seq, current_position, current_position + cigar_length)

\* The position moved on whether the sequence is padded or not.
NextPosition_always(bool_pad, current_position, cigar_length) ==
    current_position + cigar_length

\* The position in the sequence after one entry.
NextPosition(bool_pad, current_position, cigar_length) ==
    IF bool_pad THEN current_position ELSE current_position + cigar_length

\* One pass through the body of  for entry in cigar_list.
WalkEntry ==
    /\ UNCHANGED scriptVars
    /\ op = "cigarListToShadedAreas"
    /\ pc = "loop"
    /\ idx < Len(cigar_list)
    /\ LET entry == cigar_list[idx + 1]
           flags == CigarPolicy(entry.CigarType)
       IN  IF ~flags.ok
           THEN /\ raised' = entry.CigarType
                /\ pc' = "raised"
                /\ UNCHANGED walkVars
           ELSE /\ shaded_ref' =
                     IF flags.bool_shade_ref
                     THEN AddShaded(shaded_ref, current_shade_position, entry.CigarLength)
                     ELSE shaded_ref
                /\ shaded_read' =
                     IF flags.bool_shade_read
                     THEN AddShaded(shaded_read, current_shade_position, entry.CigarLength)
                     ELSE shaded_read
                /\ current_shade_position' = current_shade_position + entry.CigarLength
                /\ padded_ref_seq' = padded_ref_seq \o
                     SeqAddition(flags.bool_pad_ref, ref_seq, current_ref_position,
                                 entry.CigarLength)
                /\ current_ref_position' =
                     NextPosition(flags.bool_pad_ref, current_ref_position,
                                  entry.CigarLength)
                /\ padded_read_seq' = padded_read_seq \o
                     SeqAddition(flags.bool_pad_read, read_seq, current_read_position,
                                 entry.CigarLength)
                /\ current_read_position' =
                     NextPosition(flags.bool_pad_read, current_read_position,
                                  entry.CigarLength)
                /\ idx' = idx + 1
                /\ UNCHANGED <<raised, pc, read_seq, ref_seq>>
    /\ UNCHANGED <<op, cigar_string, stringified, cigar_in, cigar_list, iters,
                   total_count>>

\* The check after the loop: whether the lengths are not consistent.
LengthsInconsistent ==
    \/ current_shade_position /= Len(padded_ref_seq)
    \/ current_shade_position /= Len(padded_read_seq)
    \/ current_read_position /= Len(read_seq)
    \/ current_ref_position /= Len(ref_seq)

\* The two padded sequences left as the loop built them.
FillShorter_unfilled(padded_ref, padded_read) ==
    [ref |-> padded_ref, read |-> padded_read]

\* The two padded sequences after the shorter one has been filled with "?".
FillShorter(padded_ref, padded_read) ==
    LET length_dif == IF Len(padded_ref) > Len(padded_read)
                      THEN Len(padded_ref) - Len(padded_read)
                      ELSE Len(padded_read) - Len(padded_ref)
    IN  IF Len(padded_ref) > Len(padded_read)
        THEN [ref |-> padded_ref, read |-> padded_read \o Repeat("?", length_dif)]
        ELSE [ref |-> padded_ref \o Repeat("?", length_dif), read |-> padded_read]

\* After the loop: the check for errors, and the return of the ShadedAreasInfo.
WalkReturn ==
    /\ UNCHANGED scriptVars
    /\ op = "cigarListToShadedAreas"
    /\ pc = "loop"
    /\ idx = Len(cigar_list)
    /\ IF LengthsInconsistent
       THEN /\ padded_ref_seq' = FillShorter(padded_ref_seq, padded_read_seq).ref
            /\ padded_read_seq' = FillShorter(padded_ref_seq, padded_read_seq).read
       ELSE UNCHANGED <<padded_ref_seq, padded_read_seq>>
    /\ pc' = "returned"
    /\ UNCHANGED <<op, raised, cigar_string, stringified, cigar_in, cigar_list,
                   iters, total_count, read_seq, ref_seq, idx, shaded_ref,
                   shaded_read, current_ref_position, current_read_position,
                   current_shade_position>>

\* ------------------------------------- FusionGeneParser_final: the records

\* The largest number of records the BAM reader yields.
MaxRecords == 2

\* if alignment.sam_mapq < 50
MinMapq == 50

\* if SA_MAPQ < 50
MinSAMapq == 50

SAColon == <<"S", "A", ":">>

SAZ == <<"S", "A", ":", "Z", ":">>

Comma == <<",">>

TagNM == <<"N", "M", ":", "i", ":", "0">>

Chr3 == <<"c", "h", "r", "3">>

\* What a tag string is written from.  "single": one well-formed SA:Z: tag
\* of six fields, or (prefixed) of five fields behind another tag; "none": no
\* SA tag; "no_z": an SA: tag that is no SA:Z: tag; "double": two SA:Z: tags;
\* "short": an SA:Z: tag of two fields; "bad_int": an SA:Z: tag whose mapping
\* quality is no integer.
SAQualities == {40, 49, 50, 60}

Givens ==
    {[kind |-> "single", prefixed |-> b, sa_mapq |-> q] :
        b \in BOOLEAN, q \in SAQualities}
    \cup {[kind |-> k, prefixed |-> FALSE, sa_mapq |-> 60] :
            k \in {"none", "no_z", "double", "short", "bad_int"}}

\* The SA:Z: tag of a supplementary alignment at chrom:500 with quality q.
SATag(chrom, q, six) ==
    SAZ \o chrom \o Comma \o <<"5", "0", "0">> \o Comma \o <<"+">> \o Comma
        \o <<"2", "0", "M">> \o Comma \o str(q) \o (IF six THEN Comma \o <<"0">> ELSE <<>>)

TagsOf(g) ==
    CASE g.kind = "single" /\ ~g.prefixed -> SATag(Chr3, g.sa_mapq, TRUE)
      [] g.kind = "single" /\ g.prefixed ->
            TagNM \o <<"\t">> \o SATag(<<"3">>, g.sa_mapq, FALSE)
      [] g.kind = "none" -> TagNM
      [] g.kind = "no_z" -> TagNM \o <<"\t">> \o SAColon \o <<"i", ":", "1">>
      [] g.kind = "double" ->
            SATag(Chr3, g.sa_mapq, TRUE) \o <<"\t">> \o SATag(Chr3, g.sa_mapq, TRUE)
      [] g.kind = "short" -> SAZ \o Chr3 \o Comma \o <<"5", "0", "0">>
      [] g.kind = "bad_int" ->
            SAZ \o Chr3 \o Comma \o <<"5", "0", "0">> \o Comma \o <<"+">> \o Comma
                \o <<"2", "0", "M">> \o Comma \o <<"x">> \o Comma \o <<"0">>

Mapqs == {49, 50, 60}

QNames == {<<"a">>, <<"b">>}

Chr1 == <<"c", "h", "r", "1">>

ChrX == <<"c", "h", "r", "X">>

\* Reference names: with the prefix, without it, and names that begin or end
\* with one of the letters c, h, r outside the prefix ("hs37d5" is the decoy
\* contig of the b37 reference).
RNames ==
    {Chr1, <<"1">>, ChrX, <<"h", "s", "3", "7", "d", "5">>,
     <<"c", "h", "r", "1", "_", "h">>}

Cigar2M == <<"2", "M">>

\* CIGAR strings of a record: two matches, an operation the helpers do not
\* support, and the "*" of a record with no CIGAR.
CigarStrings == {Cigar2M, <<"2", "X">>, <<"*">>}

\* A decoded alignment record, as pybam yields it.
RecordOf(qname, mapq, g, rname, cigar) ==
    [sam_qname |-> qname,
     sam_tags_string |-> TagsOf(g),
     sam_mapq |-> mapq,
     sam_rname |-> rname,
     sam_pos1 |-> 3,
     sam_seq |-> <<"A", "C">>,
     sam_l_seq |-> 2,
     sam_cigar_string |-> cigar]

\* A record on chr1 with the CIGAR string 2M.
Record(qname, mapq, g) == RecordOf(qname, mapq, g, Chr1, Cigar2M)

\* Leftmost positions of a record (1-based; 0 is what the decoder gives a
\* record with no position), and a CIGAR string of four matches: with the
\* reference files of six bases, windows that start at the first base or end
\* at the last one.
Positions == {0, 1, 5}

Cigar4M == <<"4", "M">>

\* An accepted record at position pos with the CIGAR string cigar.
RecordAt(rname, pos, cigar) ==
    [RecordOf(<<"a">>, 60, [kind |-> "single", prefixed |-> FALSE, sa_mapq |-> 60],
              rname, cigar)
        EXCEPT !.sam_pos1 = pos]

\* What an accepted record's tag string is written from.
GoodGiven == [kind |-> "single", prefixed |-> FALSE, sa_mapq |-> 60]

\* The records the BAM reader may yield, each with what its tag string was
\* written from: every tag string and quality on chr1 with 2M, and accepted
\* records with the other reference names, the other CIGAR strings and the
\* other positions.
Alignments ==
    {[rec |-> Record(qname, mapq, g), given |-> g] :
        qname \in QNames, mapq \in Mapqs, g \in Givens}
    \cup {[rec |-> RecordOf(<<"a">>, 60, GoodGiven, rname, Cigar2M), given |-> GoodGiven] :
            rname \in RNames}
    \cup {[rec |-> RecordOf(<<"a">>, 60, GoodGiven, Chr1, cigar), given |-> GoodGiven] :
            cigar \in CigarStrings}
    \cup {[rec |-> RecordAt(Chr1, pos, Cigar2M), given |-> GoodGiven] :
            pos \in Positions}
    \cup {[rec |-> RecordAt(ChrX, 1, Cigar4M), given |-> GoodGiven]}

NoRecord == Record(<<>>, 0, [kind |-> "none", prefixed |-> FALSE, sa_mapq |-> 0])

FilterInit ==
    /\ fpc = "loop"
    /\ fraised = "none"
    /\ n_read = 0
    /\ alignment = NoRecord
    /\ sa_given = [kind |-> "none", prefixed |-> FALSE, sa_mapq |-> 0]
    /\ Reads = <<>>
    /\ sa_bound = FALSE
    /\ SA_chr = <<>>
    /\ SA_pos = <<>>
    /\ SA_MAPQ = 0
    /\ arrival = <<>>
    /\ newfile = <<>>
    /\ widx = 0
    /\ rfiles_open = 0

\* ------------------------------------ FusionGeneParser_final: the filter loop

\* The supplementary gate with the threshold itself rejected.
SAMapqTooLow_inclusive(sa_mapq) == sa_mapq <= MinSAMapq

\* alignment.sam_mapq < 50
MapqTooLow(sam_mapq) == sam_mapq < MinMapq

\* SA_MAPQ < 50
SAMapqTooLow(sa_mapq) == sa_mapq < MinSAMapq

\* The three names bound by the first SA:Z: tag the loop ever meets, and left
\* alone by every later one.
BindSA_once(fields, first, sa) ==
    IF sa.bound THEN sa
    ELSE IF Len(first) < 2 \/ Len(fields) < 5
    THEN [sa EXCEPT !.raised = "IndexError"]
    ELSE IF ~IsIntLiteral(fields[5])
    THEN [sa EXCEPT !.raised = "ValueError"]
    ELSE [sa EXCEPT !.SA_chr = first[2], !.SA_pos = fields[2],
                    !.SA_MAPQ = IntOf(fields[5]), !.bound = TRUE]

\* The statements under  if SAfinder:  for the comma-split tag (fields) and
\* its split first field (first); sa holds SA_chr, SA_pos, SA_MAPQ and the
\* exception raised, if any.  Each name is bound as its statement is reached:
\* an exception leaves the later ones as they were.
BindSA(fields, first, sa) ==
    IF Len(first) < 2
    THEN [sa EXCEPT !.raised = "IndexError"]
    ELSE IF Len(fields) < 2
    THEN [sa EXCEPT !.SA_chr = first[2], !.raised = "IndexError"]
    ELSE IF Len(fields) < 5
    THEN [sa EXCEPT !.SA_chr = first[2], !.SA_pos = fields[2],
                    !.raised = "IndexError"]
    ELSE IF ~IsIntLiteral(fields[5])
    THEN [sa EXCEPT !.SA_chr = first[2], !.SA_pos = fields[2],
                    !.raised = "ValueError"]
    ELSE [sa EXCEPT !.SA_chr = first[2], !.SA_pos = fields[2],
                    !.SA_MAPQ = IntOf(fields[5]), !.bound = TRUE]

\* tag = tag.split(','), then tag[0].split("SA:Z:"): each split is computed
\* once (the sets of one element bind its value).
ParseSATag(tag, sa) ==
    CHOOSE r \in UNION {{BindSA(fields, first, sa) : first \in {SplitOn(fields[1], SAZ)}} :
                        fields \in {SplitOn(tag, Comma)}} : TRUE

\* for tag in x: from tag i on.
RECURSIVE ScanTags(_, _, _)
ScanTags(x, i, sa) ==
    IF i > Len(x) \/ sa.raised /= "none" THEN sa
    ELSE IF Contains(x[i], SAZ)
         THEN CHOOSE r \in {ScanTags(x, i + 1, sa1) : sa1 \in {ParseSATag(x[i], sa)}} : TRUE
         ELSE ScanTags(x, i + 1, sa)

\* Read(alignment.sam_qname, chro, alignment.sam_pos1, tail, ...)
Read(rec, tail, sa) ==
    [Name |-> rec.sam_qname,
     Chr |-> Strip(rec.sam_rname, {"c", "h", "r"}),
     Pos |-> rec.sam_pos1,
     SuppAl |-> tail,
     ReadSeq |-> rec.sam_seq,
     ReadLen |-> rec.sam_l_seq,
     Cigar |-> rec.sam_cigar_string,
     SA_Chr |-> sa.SA_chr,
     SA_Pos |-> sa.SA_pos,
     SA_MAPQ |-> sa.SA_MAPQ]

\* The end of an iteration once the tags have been gone through (sa):
\* "skip" is a continue, "append" the Reads.append(d), and anything else the
\* exception that ends the script.
AfterTags(rec, tail, sa) ==
    IF sa.raised /= "none"
    THEN [end |-> sa.raised, sa |-> sa, read |-> <<>>]
    ELSE IF ~sa.bound
    THEN [end |-> "NameError", sa |-> sa, read |-> <<>>]
    ELSE IF SAMapqTooLow(sa.SA_MAPQ)
    THEN [end |-> "skip", sa |-> sa, read |-> <<>>]
    ELSE [end |-> "append", sa |-> sa, read |-> <<Read(rec, tail, sa)>>]

\* The iteration from  head, tail = ...split("SA:Z:")  on, pieces being the
\* result of the split.
AfterSplit(rec, pieces, sa0) ==
    IF Len(pieces) /= 2
    THEN [end |-> "ValueError", sa |-> sa0, read |-> <<>>]
    ELSE IF MapqTooLow(rec.sam_mapq)
    THEN [end |-> "skip", sa |-> sa0, read |-> <<>>]
    ELSE CHOOSE r \in {AfterTags(rec, pieces[2], sa) :
                       sa \in {ScanTags(SplitWhiteSpace(rec.sam_tags_string), 1, sa0)}} : TRUE

\* One iteration of  for alignment in pybam.read(BAMfile): what it leaves
\* behind, sa0 holding SA_chr, SA_pos and SA_MAPQ as the iteration finds them.
FilterBody(rec, sa0) ==
    IF ~Contains(rec.sam_tags_string, SAColon)
    THEN [end |-> "skip", sa |-> sa0, read |-> <<>>]
    ELSE CHOOSE r \in {AfterSplit(rec, pieces, sa0) :
                       pieces \in {SplitOn(rec.sam_tags_string, SAZ)}} : TRUE

\* SA_chr, SA_pos and SA_MAPQ before the first record: no name is bound.
FreshSA ==
    [SA_chr |-> <<>>, SA_pos |-> <<>>, SA_MAPQ |-> 0, bound |-> FALSE,
     raised |-> "none"]

\* The BAM reader yields one more record and the loop body runs on it.
FilterRecord ==
    /\ fpc = "loop"
    /\ n_read < MaxRecords
    /\ \E a \in Alignments :
      \E out \in {FilterBody(a.rec, [SA_chr |-> SA_chr, SA_pos |-> SA_pos,
                                     SA_MAPQ |-> SA_MAPQ, bound |-> sa_bound,
                                     raised |-> "none"])} :
            /\ alignment' = a.rec
            /\ sa_given' = a.given
            /\ Reads' = Reads \o out.read
            /\ SA_chr' = out.sa.SA_chr
            /\ SA_pos' = out.sa.SA_pos
            /\ SA_MAPQ' = out.sa.SA_MAPQ
            /\ sa_bound' = out.sa.bound
            /\ fpc' = IF out.end \in {"skip", "append"} THEN "loop" ELSE "raised"
            /\ fraised' = IF out.end \in {"skip", "append"} THEN "none" ELSE out.end
    /\ n_read' = n_read + 1
    /\ UNCHANGED <<helperVars, zoomVars, writerVars, parserVars>>

FilterNext == FilterRecord

\* ------------------------------------- FusionGeneParser_final: Reads.sort()

\* The characters of the model in the order of their code points.
Ascii ==
    <<"\t", "\n", " ", "*", "+", ",", "-",
      "0", "1", "2", "3", "4", "5", "6", "7", "8", "9", ":", ">", "?",
      "A", "B", "C", "D", "E", "F", "G", "H", "I", "J", "K", "L", "M",
      "N", "O", "P", "Q", "R", "S", "T", "U", "V", "W", "X", "Y", "Z", "_",
      "a", "b", "c", "d", "e", "f", "g", "h", "i", "j", "k", "l", "m",
      "n", "o", "p", "q", "r", "s", "t", "u", "v", "w", "x", "y", "z">>

Ord(c) == CHOOSE k \in 1..Len(Ascii) : Ascii[k] = c

\* The comparison of two strings from index i on: -1 (a < b), 0, 1 (a > b).
RECURSIVE StrCmp(_, _, _)
StrCmp(a, b, i) ==
    IF i > Len(a) /\ i > Len(b) THEN 0
    ELSE IF i > Len(a) THEN -1
    ELSE IF i > Len(b) THEN 1
    ELSE IF a[i] = b[i] THEN StrCmp(a, b, i + 1)
    ELSE IF Ord(a[i]) < Ord(b[i]) THEN -1
    ELSE 1

IntCmp(a, b) == IF a < b THEN -1 ELSE IF a = b THEN 0 ELSE 1

\* x < y for two Read tuples: the comparison of tuples, decided by the first
\* field in which they differ.
ReadLess(x, y) ==
    \E cmps \in {<<StrCmp(x.Name, y.Name, 1), StrCmp(x.Chr, y.Chr, 1),
                    IntCmp(x.Pos, y.Pos), StrCmp(x.SuppAl, y.SuppAl, 1),
                    StrCmp(x.ReadSeq, y.ReadSeq, 1), IntCmp(x.ReadLen, y.ReadLen),
                    StrCmp(x.Cigar, y.Cigar, 1), StrCmp(x.SA_Chr, y.SA_Chr, 1),
                    StrCmp(x.SA_Pos, y.SA_Pos, 1), IntCmp(x.SA_MAPQ, y.SA_MAPQ)>>} :
        \E k \in 1..Len(cmps) : cmps[k] = -1 /\ \A j \in 1..(k - 1) : cmps[j] = 0

\* x put into the sorted list l behind every element that is not greater.
InsertSorted(x, l) ==
    LET greater == {i \in 1..Len(l) : ReadLess(x, l[i])}
        k == IF greater = {} THEN Len(l) + 1
             ELSE CHOOSE i \in greater : \A j \in greater : i <= j
    IN  SubSeq(l, 1, k - 1) \o <<x>> \o SubSeq(l, k, Len(l))

\* The first n elements of l, sorted (a stable sort, as list.sort() is).
RECURSIVE SortPrefix(_, _)
SortPrefix(l, n) ==
    IF n = 0 THEN <<>> ELSE InsertSorted(l[n], SortPrefix(l, n - 1))

\* The list left as the loop appended it.
SortReads_unsorted(l) == l

\* Reads.sort()
SortReads(l) == SortPrefix(l, Len(l))

\* The BAM reader has no more records: the list is sorted and the output file
\* is opened for writing.
EndOfRecords ==
    /\ fpc = "loop"
    /\ arrival' = Reads
    /\ Reads' = SortReads(Reads)
    /\ newfile' = <<>>
    /\ widx' = 0
    /\ fpc' = "write"
    /\ UNCHANGED <<fraised, n_read, alignment, sa_given, sa_bound, SA_chr, SA_pos,
                   SA_MAPQ, rfiles_open, helperVars, zoomVars, parserVars>>

\* ------------------------------------- FusionGeneParser_final: the write loop

NL == <<"\n">>

\* The contents of the reference file <Chr>.FASTA: one line of bases, X.FASTA
\* with other bases than the files of the other chromosomes.
RefContent(chr) ==
    IF chr = <<"X">> THEN <<"T", "T", "G", "C", "A", "A">>
    ELSE <<"A", "C", "G", "T", "A", "C">>

\* A read that leaves the file one character further than it read.
FileRead_skipping(content, offset, size) ==
    IF size < 0
    THEN [data |-> Slice(content, offset, Len(content)),
          offset |-> IF offset > Len(content) THEN offset ELSE Len(content)]
    ELSE [data |-> Slice(content, offset, offset + size),
          offset |-> Min(offset + size + 1,
                         IF offset > Len(content) THEN offset ELSE Len(content))]

\* file.read(size) at an offset: the characters read and the offset after
\* them (a negative size reads to the end of the file).
FileRead(content, offset, size) ==
    IF size < 0
    THEN [data |-> Slice(content, offset, Len(content)),
          offset |-> IF offset > Len(content) THEN offset ELSE Len(content)]
    ELSE [data |-> Slice(content, offset, offset + size),
          offset |-> Min(offset + size, IF offset > Len(content) THEN offset ELSE Len(content))]

\* The five lines written before the CIGAR string is looked at.
FirstFiveLines(i) ==
    i.Name \o NL
    \o i.Chr \o <<":">> \o str(i.Pos) \o NL
    \o str(i.ReadLen) \o NL
    \o i.Cigar \o NL
    \o i.ReadSeq \o NL

\* The rest of the body once the span is computed (span.raised names the
\* type howLongShouldReferenceSequenceBe raised on, if any).
AfterFive(i, file5, span) ==
    IF span.raised /= "none"
    THEN [file |-> file5, raised |-> "Exception"]
    ELSE [file |-> file5
                   \o FileRead(RefContent(i.Chr),
                               FileRead(RefContent(i.Chr), 0, i.Pos - 1).offset,
                               span.value).data
                   \o NL \o <<">">> \o NL,
          raised |-> "none"]

\* The body of  for i in Reads  on the file written so far: the file after
\* it, and the exception that ended it, if any.
WriteBody(i, file) ==
    CHOOSE r \in {AfterFive(i, file \o FirstFiveLines(i), span) :
                   span \in {howLongShouldReferenceSequenceBe(cigarStringToList(i.Cigar))}} :
        TRUE

\* The reference files that may be open once  Rfile = open(Rfilename,'r')  has
\* run with n files open: the file just opened, which Rfile now names, and the
\* files opened before, which nothing refers to any more and nothing closed.
\* Such a file is closed when the interpreter reclaims its object: at once
\* where objects are reference counted, at some later collection, or at the
\* exit of the process, elsewhere.
OpenAfterOpening(n) == 1..(n + 1)

\* One pass through the body of the write loop.
WriteCandidate ==
    /\ fpc = "write"
    /\ widx < Len(Reads)
    /\ rfiles_open' \in OpenAfterOpening(rfiles_open)
    /\ \E out \in {WriteBody(Reads[widx + 1], newfile)} :
        /\ newfile' = out.file
        /\ fraised' = out.raised
        /\ fpc' = IF out.raised = "none" THEN "write" ELSE "stopped"
        /\ widx' = IF out.raised = "none" THEN widx + 1 ELSE widx
    /\ UNCHANGED <<n_read, alignment, sa_given, Reads, sa_bound, SA_chr, SA_pos,
                   SA_MAPQ, arrival, helperVars, zoomVars, parserVars>>

\* The write loop has gone through Reads: the file is closed, and the script
\* goes on to alignment_tester.main.
FinishWriting ==
    /\ fpc = "write"
    /\ widx = Len(Reads)
    /\ fpc' = "done"
    /\ UNCHANGED <<fraised, n_read, alignment, sa_given, Reads, sa_bound, SA_chr,
                   SA_pos, SA_MAPQ, writerVars, helperVars, zoomVars, parserVars>>

ScriptNext ==
    \/ FilterRecord
    \/ EndOfRecords
    \/ WriteCandidate
    \/ FinishWriting

\* ----------------------- FusionGeneParser_final: alignment_tester.main(...)

\* The file the write loop leaves when it goes through reads from candidate k
\* on, until the end or until an exception.
RECURSIVE WriteAll(_, _, _)
WriteAll(reads, k, file) ==
    IF k > Len(reads) THEN file
    ELSE CHOOSE r \in {IF out.raised /= "none" THEN out.file
                        ELSE WriteAll(reads, k + 1, out.file) :
                        out \in {WriteBody(reads[k], file)}} : TRUE

\* Whether the write loop goes through all of reads (no candidate's CIGAR
\* string makes howLongShouldReferenceSequenceBe raise), so that the script
\* reaches its last line.
WritesAll(reads) ==
    \A k \in 1..Len(reads) :
        howLongShouldReferenceSequenceBe(cigarStringToList(reads[k].Cigar)).raised = "none"

\* The candidates the filter loop makes of the records read "a" and "b" with
\* mapping quality 60 and one tag string: every reference name, CIGAR string
\* and position of the records (the fields of the tag string are not written
\* to the file).
MainCandidates ==
    {out.read[1] :
        out \in {o \in {FilterBody(a.rec, FreshSA) :
                            a \in {b \in Alignments : /\ b.given = GoodGiven
                                                     /\ b.rec.sam_mapq = 60}} :
                    o.end = "append"}}

\* The lists of n candidates at most, as the filter loop may leave them.
RECURSIVE CandidateLists(_)
CandidateLists(n) ==
    IF n = 0 THEN {<<>>}
    ELSE CandidateLists(n - 1)
         \cup {<<c>> \o rest : c \in MainCandidates, rest \in CandidateLists(n - 1)}

\* The runs of the script that reach  alignment_tester.main([newfile.name]):
\* the sorted list of candidates and the file written for it.
MainRuns ==
    {[reads |-> reads, file |-> WriteAll(reads, 1, <<>>)] :
        reads \in {r \in {SortReads(l) : l \in CandidateLists(MaxRecords)} :
                    WritesAll(r)}}

\* ------------------------------------------- alignment_tester: ParseReadFile

\* The largest number of pieces (blocks, runs of lines) a file read by
\* ParseReadFile is made of.
MaxBlocks == 2

Terminator == <<">">>

\* The six lines of a block as the writer writes them.
SixLines(name, position, cigar) ==
    <<name, position, <<"2">>, cigar, <<"A", "C">>, <<"A", "C">>>>

GoodSix == SixLines(<<"a">>, <<"1", ":", "3">>, Cigar2M)

\* The pieces a file is made of, each a list of lines: whole blocks (two
\* names; a leading hard clip, a trailing hard clip and an unsupported letter
\* in the CIGAR string; the chromosome X), a block of five lines, a block of
\* seven lines, six lines with no ">" behind them, a ">" alone, a blank line.
Pieces ==
    {Append(SixLines(name, <<"1", ":", "3">>, Cigar2M), Terminator) :
        name \in {<<"a">>, <<"b">>}}
    \cup {Append(SixLines(<<"a">>, <<"1", ":", "3">>, cigar), Terminator) :
            cigar \in {<<"1", "H", "2", "M">>, <<"2", "M", "1", "H">>, <<"2", "X">>}}
    \cup {Append(SixLines(<<"a">>, <<"X", ":", "3">>, Cigar2M), Terminator),
          Append(SubSeq(GoodSix, 1, 5), Terminator),
          Append(Append(GoodSix, <<"A">>), Terminator),
          GoodSix,
          <<Terminator>>,
          <<<<>>>>}

\* The characters of a file of these lines, each ended by "\n".
RECURSIVE JoinLines(_)
JoinLines(lines) ==
    IF Len(lines) = 0 THEN <<>>
    ELSE lines[1] \o NL \o JoinLines(Tail(lines))

\* The files of n pieces at most.
RECURSIVE FilesUpTo(_)
FilesUpTo(n) ==
    IF n = 0 THEN {<<>>}
    ELSE FilesUpTo(n - 1)
         \cup {JoinLines(piece) \o rest : piece \in Pieces, rest \in FilesUpTo(n - 1)}

ParseFiles == FilesUpTo(MaxBlocks)

ParserInit ==
    /\ ppc = "idle"
    /\ praised = "none"
    /\ file1 = <<>>
    /\ file_pos = 0
    /\ current_alignment_info_text = <<>>
    /\ alignment_infos = <<>>

\* file1 = open(file_name, 'r'), and the two empty lists: of a file the script
\* has written, or of any other file of blocks.
CallParseReadFile ==
    /\ ppc = "idle"
    /\ \E f \in ParseFiles \cup {run.file : run \in MainRuns} : file1' = f
    /\ file_pos' = 0
    /\ current_alignment_info_text' = <<>>
    /\ alignment_infos' = <<>>
    /\ ppc' = "reading"
    /\ UNCHANGED <<praised, helperVars, zoomVars, filterVars, writerVars>>

\* file1.readline(): the characters up to and including the next "\n", or up
\* to the end of the file.
ReadLineEnd(file, pos) ==
    LET i == FindFrom(file, NL, pos + 1) IN IF i = 0 THEN Len(file) ELSE i

\* read_line.rstrip("\n")
RStripNewlines(line) == SubSeq(line, 1, SkipBack(line, {"\n"}, Len(line)))

\* The first loop of trimHardClips.
RECURSIVE LeadingLoop(_)
LeadingLoop(l) ==
    IF Len(l) > 0 /\ IsHardClip(l[1]) THEN LeadingLoop(LeadingBody(l)) ELSE l

\* The second loop of trimHardClips: what it returns, or that it does not
\* return (a pass that leaves the list as it was is repeated for ever).
RECURSIVE TrailingLoop(_)
TrailingLoop(l) ==
    IF Len(l) > 0 /\ IsHardClip(l[Len(l)])
    THEN IF TrailingBody(l) = l THEN [returns |-> FALSE, value |-> l]
         ELSE TrailingLoop(TrailingBody(l))
    ELSE [returns |-> TRUE, value |-> l]

trimHardClips(cigars) == TrailingLoop(LeadingLoop(cigars))

\* Whether cigarListToShadedAreas raises on the list: its only raise is the
\* else of the if/elif chain.
WalkRaises(cigars) ==
    \E k \in 1..Len(cigars) : ~CigarPolicy(cigars[k].CigarType).ok

\* AlignmentInfo(name, cigar_list, ref_half_alignment_info,
\* read_half_alignment_info), with seq and start_pos of the two halves.
AlignmentInfo(name, cigars, ref_seq_, ref_start, read_seq_, read_start) ==
    [name |-> name, cigar_list |-> cigars,
     ref_seq |-> ref_seq_, ref_start |-> ref_start,
     read_seq |-> read_seq_, read_start |-> read_start]

\* The block from the trimmed CIGAR list on (trimmed is what trimHardClips
\* gave).
AfterTrim(text, start, trimmed) ==
    IF ~trimmed.returns THEN [end |-> "hang", info |-> <<>>]
    ELSE IF Len(text) < 6 THEN [end |-> "IndexError", info |-> <<>>]
    ELSE IF WalkRaises(trimmed.value) THEN [end |-> "Exception", info |-> <<>>]
    ELSE [end |-> "append",
          info |-> <<AlignmentInfo(text[1], trimmed.value, text[6], start,
                                   text[5], start)>>]

\* The statements under  elif trimmed_line == ">"  on the lines stored: the
\* AlignmentInfo to append, or how they end otherwise (an exception, or the
\* loop of trimHardClips that does not end).
ProcessEntry(text) ==
    IF Len(text) < 2 THEN [end |-> "IndexError", info |-> <<>>]
    ELSE IF ~IsIntLiteral(SplitOn(text[2], <<":">>)[1])
    THEN [end |-> "ValueError", info |-> <<>>]
    ELSE IF Len(text) < 4 THEN [end |-> "IndexError", info |-> <<>>]
    ELSE CHOOSE r \in {AfterTrim(text, IntOf(SplitOn(text[2], <<":">>)[1]), trimmed) :
                       trimmed \in {trimHardClips(cigarStringToList(text[4]))}} : TRUE

\* current_alignment_info_text = [] after an entry.
ClearedText(text) == <<>>

\* One pass through the body of  while len(read_line) > 0  on a line read.
ParseLine ==
    /\ ppc = "reading"
    /\ file_pos < Len(file1)
    /\ \E line_end \in {ReadLineEnd(file1, file_pos)} :
        LET read_line == SubSeq(file1, file_pos + 1, line_end)
            trimmed_line == RStripNewlines(read_line)
        IN  /\ file_pos' = line_end
            /\ IF read_line = NL
               THEN UNCHANGED <<ppc, praised, current_alignment_info_text,
                                alignment_infos>>
               ELSE IF trimmed_line = Terminator
               THEN \E out \in {ProcessEntry(current_alignment_info_text)} :
                        /\ alignment_infos' = alignment_infos \o out.info
                        /\ current_alignment_info_text' =
                             IF out.end = "append"
                             THEN ClearedText(current_alignment_info_text)
                             ELSE current_alignment_info_text
                        /\ ppc' = CASE out.end = "append" -> "reading"
                                    [] out.end = "hang" -> "hung"
                                    [] OTHER -> "raised"
                        /\ praised' = IF out.end \in {"append", "hang"} THEN "none"
                                      ELSE out.end
               ELSE /\ current_alignment_info_text' =
                         Append(current_alignment_info_text, trimmed_line)
                    /\ UNCHANGED <<ppc, praised, alignment_infos>>
    /\ UNCHANGED <<file1, helperVars, zoomVars, filterVars, writerVars>>

\* What ParseReadFile returns once readline has given the empty string: the
\* lines still stored are left where they are.
ReturnedInfos_flushed(text, infos) ==
    IF Len(text) = 0 THEN infos
    ELSE Append(infos, AlignmentInfo(text[1], <<>>, <<>>, 0, <<>>, 0))

ReturnedInfos(text, infos) == infos

\* readline gives the empty string: the loop ends, the file is closed and
\* the list is returned.
ParseReturn ==
    /\ ppc = "reading"
    /\ file_pos = Len(file1)
    /\ alignment_infos' = ReturnedInfos(current_alignment_info_text, alignment_infos)
    /\ ppc' = "returned"
    /\ UNCHANGED <<praised, file1, file_pos, current_alignment_info_text,
                   helperVars, zoomVars, filterVars, writerVars>>

ParseNext ==
    \/ CallParseReadFile
    \/ ParseLine
    \/ ParseReturn

\* ------------------------------------ alignment_gui: BarFrameStackerScrollArea

\* __zoomLevels, the pixels per nucleotide of each zoom level, each written as
\* a fraction <<numerator, denominator>> (1.3 is 13/10, 2.85 is 57/20).
zoomLevels ==
    <<<<1, 100>>, <<1, 80>>, <<1, 60>>, <<1, 40>>, <<1, 30>>, <<1, 20>>, <<1, 15>>,
      <<1, 10>>, <<1, 7>>, <<1, 4>>, <<1, 3>>, <<1, 2>>, <<2, 3>>, <<3, 4>>, <<1, 1>>,
      <<13, 10>>, <<17, 10>>, <<11, 5>>, <<57, 20>>, <<37, 10>>, <<24, 5>>, <<31, 5>>,
      <<81, 10>>, <<21, 2>>, <<68, 5>>, <<177, 10>>, <<23, 1>>>>

\* Padded lengths of the sequence shown (none, a few, many nucleotides), and
\* widths of the viewport in pixels.
SequenceLengths == {0, 2, 40, 200}

ViewportWidths == {0, 1, 100}

\* event.delta() of a wheel event.
WheelDeltas == {-120, 0, 120}

ZoomInit ==
    /\ zoom_made = FALSE
    /\ sequenceLength = 0
    /\ currentZoomLevelIndex = 0
    /\ zoom_call = "none"
    /\ zoom_raised = "none"

\* BarFrameStackerScrollArea(BarFrameStacker(alignment_info)): the stacker
\* takes the padded length of the reference, and the index is the class's 0.
MakeScrollArea ==
    /\ ~zoom_made
    /\ zoom_made' = TRUE
    /\ \E n \in SequenceLengths : sequenceLength' = n
    /\ currentZoomLevelIndex' = 0
    /\ UNCHANGED <<zoom_call, zoom_raised, helperVars, filterVars, writerVars,
                   parserVars>>

\* __fixPositionAndInitiateResize(x_position_to_lock): its exception, for a
\* position inside the scroll area or outside of it.
FixPosition(x_inside) == IF x_inside THEN "none" ELSE "ValueError"

\* The index after a zoomIn that steps from the last level on.
ZoomInIndex_unbounded(index) == index + 1

\* zoomIn: the index after  if self.__currentZoomLevelIndex + 1 < len(...).
ZoomInIndex(index) ==
    IF index + 1 < Len(zoomLevels) THEN index + 1 ELSE index

\* zoomIn(x_position_to_lock): the index and the exception it leaves behind.
zoomIn(index, x_inside) ==
    [index |-> ZoomInIndex(index),
     raised |-> IF ZoomInIndex(index) /= index THEN FixPosition(x_inside) ELSE "none"]

\* self.getCurrentZoomLevel() > float(desired_width) / self.__sequenceLength
ZoomLevelAbove(index, desired_width, seq_len) ==
    zoomLevels[index + 1][1] * seq_len > desired_width * zoomLevels[index + 1][2]

\* zoomOut(x_position_to_lock) with the viewport desired_width pixels wide:
\* suggestZoomLevel is called only behind  self.__currentZoomLevelIndex > 0,
\* and raises before the index is touched.
zoomOut(index, x_inside, desired_width, seq_len) ==
    IF index <= 0 THEN [index |-> index, raised |-> "none"]
    ELSE IF desired_width < 1 THEN [index |-> index, raised |-> "ValueError"]
    ELSE IF seq_len = 0 THEN [index |-> index, raised |-> "ZeroDivisionError"]
    ELSE IF ZoomLevelAbove(index, desired_width, seq_len)
    THEN [index |-> index - 1, raised |-> FixPosition(x_inside)]
    ELSE [index |-> index, raised |-> "none"]

\* The plus button, or a call of zoomIn(): the position is the centre.
CallZoomIn ==
    /\ zoom_made
    /\ \E out \in {zoomIn(currentZoomLevelIndex, TRUE)} :
        /\ currentZoomLevelIndex' = out.index
        /\ zoom_raised' = out.raised
    /\ zoom_call' = "zoomIn"
    /\ UNCHANGED <<zoom_made, sequenceLength, helperVars, filterVars, writerVars,
                   parserVars>>

\* The minus button, or a call of zoomOut().
CallZoomOut ==
    /\ zoom_made
    /\ \E w \in ViewportWidths :
        \E out \in {zoomOut(currentZoomLevelIndex, TRUE, w, sequenceLength)} :
            /\ currentZoomLevelIndex' = out.index
            /\ zoom_raised' = out.raised
    /\ zoom_call' = "zoomOut"
    /\ UNCHANGED <<zoom_made, sequenceLength, helperVars, filterVars, writerVars,
                   parserVars>>

\* wheelEvent(event): zoomIn or zoomOut at the position of the mouse, or
\* neither.
WheelEvent ==
    /\ zoom_made
    /\ \E delta \in WheelDeltas, x_inside \in BOOLEAN, w \in ViewportWidths :
        \E out \in {IF delta > 0 THEN zoomIn(currentZoomLevelIndex, x_inside)
                     ELSE IF delta < 0
                     THEN zoomOut(currentZoomLevelIndex, x_inside, w, sequenceLength)
                     ELSE [index |-> currentZoomLevelIndex, raised |-> "none"]} :
            /\ currentZoomLevelIndex' = out.index
            /\ zoom_raised' = out.raised
            /\ zoom_call' = IF delta > 0 THEN "zoomIn"
                            ELSE IF delta < 0 THEN "zoomOut" ELSE "none"
    /\ UNCHANGED <<zoom_made, sequenceLength, helperVars, filterVars, writerVars,
                   parserVars>>

ZoomNext ==
    \/ MakeScrollArea
    \/ CallZoomIn
    \/ CallZoomOut
    \/ WheelEvent

\* ----------------------------------------------------------- specification

Next ==
    \/ TokenizeEntries
    \/ TokenizeRaw
    \/ CallTrimHardClips
    \/ TrimLeading
    \/ TrimTrailing
    \/ CallHowLong
    \/ CallShadedAreas
    \/ WalkEntry
    \/ WalkReturn

Init == HelperInit /\ FilterInit /\ ParserInit /\ ZoomInit

\* The helpers of alignment_helper.py, each called on its own.
Spec == Init /\ [][Next]_vars

\* The filter loop of FusionGeneParser_final.py.
FilterSpec == Init /\ [][FilterNext]_vars

\* The whole of FusionGeneParser_final.py up to the call of alignment_tester.
ScriptSpec == Init /\ [][ScriptNext]_vars

\* ParseReadFile of alignment_tester.py, called on a file.
ParseSpec == Init /\ [][ParseNext]_vars

\* The interpreter runs a function that was called until it returns or raises.
FairSpec == Spec /\ WF_vars(Next)

\* The zoom events of a BarFrameStackerScrollArea of alignment_gui.py.
ZoomSpec == Init /\ [][ZoomNext]_vars

\* ================================================================== claims

AllSupported(l) == \A i \in 1..Len(l) : l[i].CigarType \in Supported

Returned(f) == op = f /\ pc = "returned"

\* ------------------------------------------------------------------- C1
\* The reference window has the length howLongShouldReferenceSequenceBe
\* computes for the CIGAR list.
WindowFits ==
    /\ howLongShouldReferenceSequenceBe(cigar_in).raised = "none"
    /\ Len(ref_seq) = howLongShouldReferenceSequenceBe(cigar_in).value

\* C1: for a CIGAR list of supported types, any read and a reference window
\* of the length howLongShouldReferenceSequenceBe gives, both padded
\* sequences cigarListToShadedAreas returns are as long as the sum of all
\* operation lengths.
C1_PaddedLengths ==
    (Returned("cigarListToShadedAreas") /\ AllSupported(cigar_in) /\ WindowFits)
    => /\ Len(padded_ref_seq) = SumLengths(cigar_in, CigarTypes)
       /\ Len(padded_read_seq) = SumLengths(cigar_in, CigarTypes)

\* A match, an insertion and a deletion with sequences that fit were padded.
C1_Witness ==
    /\ Returned("cigarListToShadedAreas")
    /\ WindowFits
    /\ Len(cigar_in) = 3
    /\ cigar_in[1].CigarType = "M"
    /\ cigar_in[2].CigarType = "I"
    /\ cigar_in[3].CigarType = "D"
    /\ Len(read_seq) = 2
    /\ Len(padded_ref_seq) = 3
    /\ Len(padded_read_seq) = 3

\* ------------------------------------------------------------------- C2
\* A list of shaded areas is strictly increasing in start, and no area ends
\* where the next one starts.
MergedAndOrdered(shaded) ==
    \A i \in 1..(Len(shaded) - 1) :
        /\ shaded[i][1] < shaded[i + 1][1]
        /\ shaded[i][1] + shaded[i][2] /= shaded[i + 1][1]

\* C2: after every step of the walk of cigarListToShadedAreas, and in what it
\* returns, both lists of shaded areas are strictly increasing in start and
\* hold no two consecutive areas a, b with a.start + a.length = b.start.
C2_ShadedMerged ==
    op = "cigarListToShadedAreas"
    => MergedAndOrdered(shaded_ref) /\ MergedAndOrdered(shaded_read)

\* Match, insertion, match: two areas on the reference, and the three areas
\* of the read merged into one.
C2_Witness ==
    /\ Returned("cigarListToShadedAreas")
    /\ shaded_ref = <<<<0, 1>>, <<2, 1>>>>
    /\ shaded_read = <<<<0, 3>>>>

\* ------------------------------------------------------------------- C3
NonSpace(s) == Cardinality({i \in 1..Len(s) : s[i] /= " "})

\* C3: for a CIGAR list of supported types and a space-free reference window
\* of the length howLongShouldReferenceSequenceBe gives, the padded reference
\* sequence holds exactly that many characters that are no space.
C3_ReferenceBases ==
    (/\ Returned("cigarListToShadedAreas")
     /\ AllSupported(cigar_in)
     /\ WindowFits
     /\ NonSpace(ref_seq) = Len(ref_seq))
    => NonSpace(padded_ref_seq) = howLongShouldReferenceSequenceBe(cigar_in).value

\* A soft clip, an insertion and a hard clip: one base and two blanks.
C3_Witness ==
    /\ Returned("cigarListToShadedAreas")
    /\ WindowFits
    /\ Len(cigar_in) = 3
    /\ cigar_in[1].CigarType = "S"
    /\ cigar_in[2].CigarType = "I"
    /\ cigar_in[3].CigarType = "H"
    /\ padded_ref_seq = <<"A", " ", " ">>

\* ------------------------------------------------------------------- C4
\* The last iteration appended exactly one candidate, made from its record.
AppendedOne ==
    /\ Len(Reads') = Len(Reads) + 1
    /\ SubSeq(Reads', 1, Len(Reads)) = Reads
    /\ Reads'[Len(Reads')].Name = alignment'.sam_qname
    /\ Reads'[Len(Reads')].SA_MAPQ = sa_given'.sa_mapq

\* C4: for a record with one well-formed SA:Z: tag (or with no SA tag at
\* all), an iteration of the filter loop appends exactly one candidate if the
\* tag string contains "SA:", the mapping quality is at least 50 and the
\* supplementary mapping quality is at least 50, and otherwise appends
\* nothing; it raises nothing.
C4_FilterGate ==
    [][(n_read' = n_read + 1 /\ sa_given'.kind \in {"single", "none"})
       => /\ fpc' = "loop"
          /\ fraised' = "none"
          /\ IF /\ Contains(alignment'.sam_tags_string, SAColon)
                /\ alignment'.sam_mapq >= 50
                /\ sa_given'.sa_mapq >= 50
             THEN AppendedOne
             ELSE Reads' = Reads]_vars

\* A record of quality 50 with a supplementary quality of 50 was appended
\* after another record had been skipped.
C4_Witness ==
    /\ n_read = 2
    /\ fpc = "loop"
    /\ sa_given.kind = "single"
    /\ sa_given.sa_mapq = 50
    /\ alignment.sam_mapq = 50
    /\ Len(Reads) = 1
    /\ Reads[1].Name = alignment.sam_qname
    /\ Reads[1].SA_MAPQ = 50
    /\ SA_MAPQ = 50

\* ------------------------------------------------------------------- C5
AllHardClips(l) == \A i \in 1..Len(l) : l[i].CigarType = "H"

NoHardClip(l) == \A i \in 1..Len(l) : l[i].CigarType /= "H"

\* The list without its leading and its trailing H entries.
Trimmed(l) ==
    LET keep == {i \in 1..Len(l) : l[i].CigarType /= "H"}
    IN  IF keep = {} THEN <<>>
        ELSE SubSeq(l, CHOOSE i \in keep : \A j \in keep : i <= j,
                       CHOOSE i \in keep : \A j \in keep : i >= j)

\* C5: trimHardClips returns its input with every leading and every trailing
\* H entry removed and all other entries kept in order.
C5_TrimReturnsTrimmed ==
    [](op = "trimHardClips" => <>(pc = "returned" /\ cigar_list = Trimmed(cigar_in)))

\* ------------------------------------------------------------------- C6
\* C6: trimHardClips returns the empty list for a list of H entries only, and
\* its input for a list with no H entry (and the second loop's body does not
\* run for either).
C6_TrimAllOrNone ==
    op = "trimHardClips"
    => /\ (AllHardClips(cigar_in) \/ NoHardClip(cigar_in)) => iters = 0
       /\ (pc = "returned" /\ AllHardClips(cigar_in)) => cigar_list = <<>>
       /\ (pc = "returned" /\ NoHardClip(cigar_in)) => cigar_list = cigar_in

\* Three hard clips were trimmed to nothing.
C6_Witness ==
    /\ Returned("trimHardClips")
    /\ Len(cigar_in) = 3
    /\ AllHardClips(cigar_in)
    /\ cigar_list = <<>>

\* ------------------------------------------------------------------- C7
\* C7: for a CIGAR list of supported types howLongShouldReferenceSequenceBe
\* returns the sum of the lengths of the M, N, D and S entries.
C7_ReferenceSpan ==
    (op = "howLongShouldReferenceSequenceBe" /\ AllSupported(cigar_in))
    => /\ pc = "returned"
       /\ raised = "none"
       /\ total_count = SumLengths(cigar_in, {"M", "N", "D", "S"})

\* A soft clip, an insertion and a gap: the insertion is not counted.
C7_Witness ==
    /\ Returned("howLongShouldReferenceSequenceBe")
    /\ Len(cigar_in) = 3
    /\ cigar_in[1].CigarType = "S"
    /\ cigar_in[2].CigarType = "I"
    /\ cigar_in[3].CigarType = "N"
    /\ total_count = 2

\* ------------------------------------------------------------------- C8
\* C8: the string of a list of entries, tokenized, is that list again.
C8_RoundTrip ==
    (op = "cigarStringToList" /\ stringified)
    => pc = "returned" /\ cigar_list = cigar_in

\* "10X0M": a length of two digits, a length of zero, an unsupported letter.
C8_Witness ==
    /\ Returned("cigarStringToList")
    /\ stringified
    /\ cigar_string = <<"1", "0", "X", "0", "M">>
    /\ cigar_list = <<CigarEntry(10, "X"), CigarEntry(0, "M")>>

\* ------------------------------------------------------------------- C9
\* The places of a string where a segment (digits, upper-case letter) ends.
SegmentEnds(s) == {j \in 2..Len(s) : IsUpper(s[j]) /\ IsDigit(s[j - 1])}

\* The place where the k-th segment ends.
KthSegmentEnd(s, k) ==
    CHOOSE j \in SegmentEnds(s) : Cardinality({i \in SegmentEnds(s) : i < j}) = k - 1

FirstUnsupported(l) ==
    CHOOSE i \in 1..Len(l) :
        /\ l[i].CigarType \notin Supported
        /\ \A j \in 1..(i - 1) : l[j].CigarType \in Supported

\* C10: on a CIGAR list with an entry of an unsupported type, wherever it is,
\* cigarListToShadedAreas and howLongShouldReferenceSequenceBe raise an
\* exception that names the type, and return nothing.
C10_UnsupportedRaises ==
    (/\ op \in {"cigarListToShadedAreas", "howLongShouldReferenceSequenceBe"}
     /\ ~AllSupported(cigar_in))
    => /\ pc /= "returned"
       /\ pc = "raised" => raised = cigar_in[FirstUnsupported(cigar_in)].CigarType
       /\ pc = "loop" => idx < FirstUnsupported(cigar_in)
       /\ op = "howLongShouldReferenceSequenceBe" => pc = "raised"

\* The walk raised on the last of three entries.
C10_Witness ==
    /\ op = "cigarListToShadedAreas"
    /\ pc = "raised"
    /\ raised = "P"
    /\ Len(cigar_in) = 3
    /\ FirstUnsupported(cigar_in) = 3
    /\ idx = 2

\* ------------------------------------------------------------------ C11
\* The sequences handed to the walk do not have the lengths the CIGAR list
\* consumes (the entries that do not pad the reference, and those that do not
\* pad the read).
WindowOrReadMismatch ==
    \/ Len(ref_seq) /= SumLengths(cigar_in, {"M", "N", "D", "S"})
    \/ Len(read_seq) /= SumLengths(cigar_in, {"M", "I", "S"})

HasFiller(s) == \E i \in 1..Len(s) : s[i] = "?"

\* C11: when the reference window (or the read) does not have the length the
\* CIGAR list consumes, cigarListToShadedAreas returns no padded alignment,
\* and no padded sequence is extended with filler characters.
C11_MismatchRejected ==
    (/\ op = "cigarListToShadedAreas"
     /\ AllSupported(cigar_in)
     /\ WindowOrReadMismatch)
    => /\ pc /= "returned"
       /\ ~HasFiller(padded_ref_seq)
       /\ ~HasFiller(padded_read_seq)

\* ------------------------------------------------------------------ C12
\* How many times sub occurs in s.
Occurrences(s, sub) == Cardinality({i \in 1..Len(s) : OccursAt(s, sub, i)})

\* The record has a mapping quality below 50, or a tag string with "SA:" and
\* not exactly one "SA:Z:".
Uninteresting(rec) ==
    \/ rec.sam_mapq < 50
    \/ /\ Occurrences(rec.sam_tags_string, SAColon) > 0
       /\ Occurrences(rec.sam_tags_string, SAZ) /= 1

\* C12: for a record whose mapping quality is below 50, or whose tag string
\* contains "SA:" and no "SA:Z:" (or more than one), an iteration of the
\* filter loop appends no candidate and raises nothing, and the loop goes on.
C12_UninterestingSkipped ==
    [][(n_read' = n_read + 1 /\ Uninteresting(alignment'))
       => /\ fpc' = "loop"
          /\ fraised' = "none"
          /\ Reads' = Reads]_vars

\* ------------------------------------------------------------------ C13
\* The name with one leading literal "chr" removed when present.
WithoutChrPrefix(rname) ==
    IF OccursAt(rname, <<"c", "h", "r">>, 1) THEN SubSeq(rname, 4, Len(rname))
    ELSE rname

\* C13: the candidate appended for an accepted record has, as its primary
\* chromosome, the record's reference name with one leading "chr" removed
\* when present and every other character left as it is.
C13_ChrPrefixOnly ==
    [][(n_read' = n_read + 1 /\ Len(Reads') = Len(Reads) + 1)
       => Reads'[Len(Reads')].Chr = WithoutChrPrefix(alignment'.sam_rname)]_vars

\* ------------------------------------------------------------------ C14
\* The lines of a file: what each "\n" ends.
FileLines(file) ==
    LET pieces == SplitOn(file, NL) IN SubSeq(pieces, 1, Len(pieces) - 1)

\* Every order of the elements of a list.
SeqPermutations(l) ==
    {[k \in 1..Len(l) |-> l[f[k]]] : f \in Permutations(1..Len(l))}

\* C14: the blocks of the output file are in non-decreasing order of read
\* name, and the file written is the same for every order in which the
\* candidates were appended.
C14_SortedOutput ==
    fpc \in {"write", "stopped", "done"}
    => /\ \E lines \in {FileLines(newfile)} :
            \A k \in 1..Len(Reads) :
                /\ k < Len(Reads) => StrCmp(Reads[k].Name, Reads[k + 1].Name, 1) <= 0
                /\ 7 * (k - 1) + 1 <= Len(lines)
                   => lines[7 * (k - 1) + 1] = Reads[k].Name
       /\ fpc \in {"stopped", "done"}
          => \A p \in SeqPermutations(arrival) :
                WriteAll(SortReads(p), 1, <<>>) = newfile

\* The candidate "b" arrived before the candidate "a", and the block of "a"
\* was written first.
C14_Witness ==
    /\ fpc = "done"
    /\ Len(arrival) = 2
    /\ arrival[1].Name = <<"b">>
    /\ arrival[2].Name = <<"a">>
    /\ Len(FileLines(newfile)) = 14
    /\ FileLines(newfile)[1] = <<"a">>
    /\ FileLines(newfile)[8] = <<"b">>

\* ------------------------------------------------------------------ C15
\* C15: once the write loop is over, the output file holds, for each candidate
\* and in their order, exactly seven lines: the name, chromosome:position,
\* the read length, the CIGAR string, the read sequence, the reference
\* window, and ">"; it holds no other line.
C15_SevenLines ==
    fpc \in {"stopped", "done"}
    => /\ Len(FileLines(newfile)) = 7 * Len(Reads)
       /\ newfile = <<>> \/ newfile[Len(newfile)] = "\n"
       /\ \A k \in 1..Len(Reads) :
            LET first == 7 * (k - 1)
                lines == FileLines(newfile)
            IN  /\ lines[first + 1] = Reads[k].Name
                /\ lines[first + 2] = Reads[k].Chr \o <<":">> \o str(Reads[k].Pos)
                /\ lines[first + 3] = str(Reads[k].ReadLen)
                /\ lines[first + 4] = Reads[k].Cigar
                /\ lines[first + 5] = Reads[k].ReadSeq
                /\ lines[first + 7] = <<">">>

\* ------------------------------------------------------------------ C16
\* The lines of a file as readline gives them, the last one with or without
\* its "\n".
AllLines(file) ==
    LET pieces == SplitOn(file, NL)
    IN  IF Len(pieces[Len(pieces)]) = 0 THEN SubSeq(pieces, 1, Len(pieces) - 1)
        ELSE pieces

\* The blocks of a list of lines from line i on, cur being the lines of the
\* block under way: a block is the lines (blank ones left out) before a ">"
\* line; the lines behind the last ">" make no block.
RECURSIVE BlocksFrom(_, _, _)
BlocksFrom(lines, i, cur) ==
    IF i > Len(lines) THEN <<>>
    ELSE IF lines[i] = Terminator THEN <<cur>> \o BlocksFrom(lines, i + 1, <<>>)
    ELSE IF lines[i] = <<>> THEN BlocksFrom(lines, i + 1, cur)
    ELSE BlocksFrom(lines, i + 1, Append(cur, lines[i]))

TerminatedBlocks(file) == BlocksFrom(AllLines(file), 1, <<>>)

\* The lines behind the last ">" line (blank ones left out).
RECURSIVE TrailingFrom(_, _, _)
TrailingFrom(lines, i, cur) ==
    IF i > Len(lines) THEN cur
    ELSE IF lines[i] = Terminator THEN TrailingFrom(lines, i + 1, <<>>)
    ELSE IF lines[i] = <<>> THEN TrailingFrom(lines, i + 1, cur)
    ELSE TrailingFrom(lines, i + 1, Append(cur, lines[i]))

TrailingLines(file) == TrailingFrom(AllLines(file), 1, <<>>)

\* C16: the list ParseReadFile returns holds exactly one entry per
\* ">"-terminated block, in order and made from that block's lines; the lines
\* behind the last ">" are in no entry (they are left in the list of stored
\* lines).  At no time are there more entries than ">"-terminated blocks.
C16_TrailingDiscarded ==
    /\ Len(alignment_infos) <= Len(TerminatedBlocks(file1))
    /\ ppc = "returned"
       => /\ Len(alignment_infos) = Len(TerminatedBlocks(file1))
          /\ \A k \in 1..Len(alignment_infos) :
                /\ alignment_infos[k].name = TerminatedBlocks(file1)[k][1]
                /\ alignment_infos[k].read_seq = TerminatedBlocks(file1)[k][5]
                /\ alignment_infos[k].ref_seq = TerminatedBlocks(file1)[k][6]
          /\ current_alignment_info_text = TrailingLines(file1)

\* A block of "b", then six lines with no ">" behind them: one entry, and the
\* six lines are left over.
C16_Witness ==
    /\ ppc = "returned"
    /\ Len(TerminatedBlocks(file1)) = 1
    /\ TrailingLines(file1) = GoodSix
    /\ Len(alignment_infos) = 1
    /\ alignment_infos[1].name = <<"b">>
    /\ current_alignment_info_text = GoodSix

\* ------------------------------------------------------------------ C17
HasSixLines(block) == Len(block) = 6

\* C17: a block with fewer or more than six lines before its ">" yields no
\* entry and no error stops the parse: no IndexError is raised, and the list
\* returned holds exactly the blocks of six lines, in order.
C17_MalformedSkipped ==
    /\ praised /= "IndexError"
    /\ ppc = "returned"
       => /\ Len(alignment_infos) = Len(SelectSeq(TerminatedBlocks(file1), HasSixLines))
          /\ \A k \in 1..Len(alignment_infos) :
                alignment_infos[k].name =
                    SelectSeq(TerminatedBlocks(file1), HasSixLines)[k][1]

\* ------------------------------------------------------------------ C18
\* The CIGAR string holds an operation, and supported letters only.
CigarAccepted(cigar) ==
    /\ Len(cigarStringToList(cigar)) > 0
    /\ AllSupported(cigarStringToList(cigar))

\* C18: a candidate whose CIGAR string holds an unsupported letter (or no
\* operation) is rejected on its own: the write loop is not stopped, and
\* when it is over the file holds one block per candidate with an accepted
\* CIGAR string; ParseReadFile is not stopped by the exception of an
\* unsupported letter.
C18_RejectedOnItsOwn ==
    /\ fpc /= "stopped"
    /\ fpc = "done"
       => Len(TerminatedBlocks(newfile)) =
            Cardinality({k \in 1..Len(Reads) : CigarAccepted(Reads[k].Cigar)})
    /\ ~(ppc = "raised" /\ praised = "Exception")

\* ------------------------------------------------------------------ C19
\* The walk goes through one entry, of one of these types.
StepOn(types) ==
    /\ op = "cigarListToShadedAreas"
    /\ pc = "loop"
    /\ idx' = idx + 1
    /\ cigar_list[idx + 1].CigarType \in types

\* The length of the entry the step goes through.
StepLength == cigar_list[idx + 1].CigarLength

\* The positions a list of shaded areas covers.
Covered(shaded) ==
    UNION {shaded[k][1]..(shaded[k][1] + shaded[k][2] - 1) : k \in 1..Len(shaded)}

\* The positions of the entry the step goes through.
StepArea == current_shade_position..(current_shade_position + StepLength - 1)

RefShaded ==
    /\ Covered(shaded_ref') = Covered(shaded_ref) \cup StepArea
    /\ MergedAndOrdered(shaded_ref')

ReadShaded ==
    /\ Covered(shaded_read') = Covered(shaded_read) \cup StepArea
    /\ MergedAndOrdered(shaded_read')

\* The next StepLength bases of the reference window are appended (all of
\* them when the window has them) and the cursor moves behind them.
RefConsumed ==
    /\ padded_ref_seq' = padded_ref_seq \o
         Slice(ref_seq, current_ref_position, current_ref_position + StepLength)
    /\ current_ref_position + StepLength <= Len(ref_seq)
       => Len(padded_ref_seq') = Len(padded_ref_seq) + StepLength
    /\ current_ref_position' = current_ref_position + StepLength

ReadConsumed ==
    /\ padded_read_seq' = padded_read_seq \o
         Slice(read_seq, current_read_position, current_read_position + StepLength)
    /\ current_read_position + StepLength <= Len(read_seq)
       => Len(padded_read_seq') = Len(padded_read_seq) + StepLength
    /\ current_read_position' = current_read_position + StepLength

\* StepLength blanks are appended and the cursor stays.
RefBlanks ==
    /\ padded_ref_seq' = padded_ref_seq \o Repeat(" ", StepLength)
    /\ current_ref_position' = current_ref_position

ReadBlanks ==
    /\ padded_read_seq' = padded_read_seq \o Repeat(" ", StepLength)
    /\ current_read_position' = current_read_position

C21_RecordAlone ==
    [][n_read' = n_read + 1 =>
        \E alone \in {FilterBody(alignment', FreshSA)} :
            /\ Reads' = Reads \o alone.read
            /\ fraised' = (IF alone.end \in {"skip", "append"} THEN "none" ELSE alone.end)
            /\ fpc' = (IF alone.end \in {"skip", "append"} THEN "loop" ELSE "raised")]_vars

\* A second record was accepted after a record that left other SA values
\* behind (chr3 with quality 50), and the candidate has its own record's
\* values (3 with quality 60).
C21_Witness ==
    /\ n_read = 2
    /\ Len(Reads) >= 1
    /\ Reads[Len(Reads)].Name = alignment.sam_qname
    /\ Reads[Len(Reads)].SA_MAPQ = 60
    /\ Reads[Len(Reads)].SA_Chr = <<"3">>
    /\ Len(Reads) = 2
    /\ Reads[1].SA_MAPQ = 50
    /\ Reads[1].SA_Chr = Chr3

\* ---------------------------------------------------------------------- C22

\* What the pass of the write loop that is being taken appended to the file.
BlockWritten == SubSeq(newfile', Len(newfile) + 1, Len(newfile'))

\* The n characters of a file at the 0-based offsets p - 1 .. p - 2 + n.
WindowAt(content, p, n) == [k \in 1..n |-> content[p - 1 + k]]

\* C22: for a candidate at position p >= 1 whose CIGAR string has the
\* reference span n, and a chromosome file of at least p - 1 + n characters,
\* the sixth line of the block written is the n characters of that
\* chromosome's file at the 0-based offsets p - 1 .. p - 2 + n.
C22_ReferenceWindow ==
    [][widx' = widx + 1 =>
        \E i \in {Reads[widx + 1]} :
          \E span \in {howLongShouldReferenceSequenceBe(cigarStringToList(i.Cigar))} :
            (i.Pos >= 1 /\ Len(RefContent(i.Chr)) >= i.Pos - 1 + span.value)
            => /\ Len(FileLines(BlockWritten)) = 7
               /\ FileLines(BlockWritten)[6] = WindowAt(RefContent(i.Chr), i.Pos, span.value)]_vars

\* Blocks were written for a candidate on chromosome X whose window of four
\* bases starts at the first base of X.FASTA, and for a candidate on
\* chromosome 1 whose window of two bases ends at the last base of 1.FASTA.
C22_Witness ==
    /\ fpc = "done"
    /\ Len(Reads) = 2
    /\ \E k \in 1..2 :
        /\ Reads[k].Chr = <<"X">> /\ Reads[k].Pos = 1 /\ Reads[k].Cigar = Cigar4M
        /\ FileLines(newfile)[7 * (k - 1) + 6] = <<"T", "T", "G", "C">>
    /\ \E k \in 1..2 :
        /\ Reads[k].Chr = <<"1">> /\ Reads[k].Pos = 5 /\ Reads[k].Cigar = Cigar2M
        /\ FileLines(newfile)[7 * (k - 1) + 6] = <<"A", "C">>

\* ---------------------------------------------------------------------- C23

\* C23: when the write loop stops on a candidate before it has gone through
\* all of them, the output file holds whole blocks only: seven lines for each
\* candidate written before, each block ending in ">", and no line of the
\* candidate the loop stopped on.
C23_WholeBlocksOnStop ==
    fpc = "stopped"
    => /\ Len(FileLines(newfile)) = 7 * widx
       /\ \A k \in 1..widx : FileLines(newfile)[7 * k] = <<">">>

\* ---------------------------------------------------------------------- C24

\* C24: at most one reference file is open at any time, and none is open once
\* the write loop is over (every reference file the loop opened has been
\* closed by then).
C24_HandlesClosed ==
    /\ rfiles_open <= 1
    /\ fpc \in {"stopped", "done"} => rfiles_open = 0

\* ---------------------------------------------------------------------- C25

\* C25: every call of trimHardClips returns, whatever the CIGAR list (the
\* lists whose last entry is H once the leading H entries are gone included).
C25_TrimTerminates ==
    [](op = "trimHardClips" => <>(pc = "returned"))

\* ---------------------------------------------------------------------- C26

\* The reference bases and the read bases the walk takes for a CIGAR list.
RefNeeded(l) == SumLengths(l, {"M", "N", "D", "S"})

ReadNeeded(l) == SumLengths(l, {"M", "I", "S"})

\* C26: for a CIGAR list of supported types and sequences of any length (the
\* length the walk takes, shorter, or longer), the two padded sequences
\* cigarListToShadedAreas returns are equally long, and they are shorter
\* than the sum of all operation lengths only if the reference and the read
\* are both shorter than what the walk takes from them.
C26_EqualPaddedLengths ==
    (Returned("cigarListToShadedAreas") /\ AllSupported(cigar_in))
    => /\ Len(padded_ref_seq) = Len(padded_read_seq)
       /\ Len(padded_ref_seq) <= SumLengths(cigar_in, CigarTypes)
       /\ Len(padded_ref_seq) < SumLengths(cigar_in, CigarTypes)
          => /\ Len(ref_seq) < RefNeeded(cigar_in)
             /\ Len(read_seq) < ReadNeeded(cigar_in)

\* The walk returned for a reference that was too short and a read that was
\* too long: the padded reference was filled up to the sum of the lengths.
C26_Witness ==
    /\ Returned("cigarListToShadedAreas")
    /\ AllSupported(cigar_in)
    /\ Len(ref_seq) < RefNeeded(cigar_in)
    /\ Len(read_seq) > ReadNeeded(cigar_in)
    /\ HasFiller(padded_ref_seq)
    /\ Len(padded_read_seq) = SumLengths(cigar_in, CigarTypes)
    /\ Len(padded_ref_seq) = Len(padded_read_seq)

\* ---------------------------------------------------------------------- C28

\* current_ref_position after the walk of cigarListToShadedAreas has gone
\* through the entries of a list from entry i on.
RECURSIVE RefCursorFrom(_, _, _)
RefCursorFrom(cigars, i, cursor) ==
    IF i > Len(cigars) THEN cursor
    ELSE RefCursorFrom(cigars, i + 1,
                       NextPosition(CigarPolicy(cigars[i].CigarType).bool_pad_ref,
                                    cursor, cigars[i].CigarLength))

\* The span of a list is the span of what trimHardClips made of it (trimmed)
\* and the reference cursor the walk ends with on it.
SpanAgrees(span, trimmed) ==
    /\ howLongShouldReferenceSequenceBe(trimmed.value) = [raised |-> "none", value |-> span]
    /\ RefCursorFrom(trimmed.value, 1, 0) = span

\* Whenever trimHardClips returns, the three numbers agree.
SpanAgreesWhenTrimmed ==
    (Returned("howLongShouldReferenceSequenceBe") /\ AllSupported(cigar_in))
    => \E trimmed \in {trimHardClips(cigar_in)} :
            trimmed.returns => SpanAgrees(total_count, trimmed)

\* C28: for every CIGAR list of supported types, the span
\* howLongShouldReferenceSequenceBe gives for the list is the span it gives
\* for the list trimHardClips returns for it, and the reference cursor the
\* walk of cigarListToShadedAreas ends with on that list.
C28_SpanIsWalkCursor ==
    (Returned("howLongShouldReferenceSequenceBe") /\ AllSupported(cigar_in))
    => \E trimmed \in {trimHardClips(cigar_in)} :
            trimmed.returns /\ SpanAgrees(total_count, trimmed)

\* ---------------------------------------------------------------------- C27

\* The reference window the write loop writes for a candidate.
WindowOf(i) ==
    FileRead(RefContent(i.Chr), FileRead(RefContent(i.Chr), 0, i.Pos - 1).offset,
             howLongShouldReferenceSequenceBe(cigarStringToList(i.Cigar)).value).data

\* C27: ParseReadFile, called on the file the write loop has written for a
\* list of candidates, returns one AlignmentInfo for each candidate, in the
\* order written, with the candidate's name, its read sequence and the
\* reference window written for it (the empty read sequence and the empty
\* window included).
C27_WriterReaderRoundTrip ==
    \A run \in MainRuns :
        (file1 = run.file /\ ppc \in {"returned", "raised", "hung"})
        => /\ ppc = "returned"
           /\ Len(alignment_infos) = Len(run.reads)
           /\ \A k \in 1..Len(run.reads) :
                /\ alignment_infos[k].name = run.reads[k].Name
                /\ alignment_infos[k].read_seq = run.reads[k].ReadSeq
                /\ alignment_infos[k].ref_seq = WindowOf(run.reads[k])

\* ---------------------------------------------------------------------- C29

\* The chromosomes of the reference files (of 1..22, X, Y, the ones the
\* records are on).
Chromosomes == {<<"1">>, <<"X">>}

\* A run whose candidates are on these chromosomes and have a reference
\* window of at least one base: every block has its seven lines, with
\* chromosome:position as the second.
WholeBlocks(run) ==
    \A k \in 1..Len(run.reads) :
        /\ run.reads[k].Chr \in Chromosomes
        /\ WindowOf(run.reads[k]) /= <<>>

\* C29: ParseReadFile raises nothing on the blocks the write loop has written
\* with the second line chromosome:position, and the read start position and
\* the reference start position of each AlignmentInfo are the position
\* written.
C29_StartIsPositionWritten ==
    \A run \in MainRuns :
        (file1 = run.file /\ WholeBlocks(run))
        => /\ ppc /= "raised"
           /\ \A k \in 1..Len(alignment_infos) :
                /\ alignment_infos[k].read_start = run.reads[k].Pos
                /\ alignment_infos[k].ref_start = run.reads[k].Pos

\* ---------------------------------------------------------------------- C30

\* C30: after any sequence of zoomIn, zoomOut and wheel events the index of
\* the current zoom level is within 0 .. len(zoomLevels) - 1; a zoomIn at the
\* last index and a zoomOut at index 0 leave it as it is, and no event moves
\* it by more than one.
C30_ZoomIndexInRange ==
    /\ [](currentZoomLevelIndex \in 0..(Len(zoomLevels) - 1))
    /\ [][/\ currentZoomLevelIndex' - currentZoomLevelIndex \in {-1, 0, 1}
          /\ (zoom_call' = "zoomIn" /\ currentZoomLevelIndex = Len(zoomLevels) - 1)
             => currentZoomLevelIndex' = currentZoomLevelIndex
          /\ (zoom_call' = "zoomOut" /\ currentZoomLevelIndex = 0)
             => currentZoomLevelIndex' = currentZoomLevelIndex]_vars

\* A zoomIn was called at the last index, and left it there.
C30_Witness ==
    /\ zoom_made
    /\ zoom_call = "zoomIn"
    /\ zoom_raised = "none"
    /\ currentZoomLevelIndex = Len(zoomLevels) - 1

====
